---------------------------- MODULE Spec2Model ----------------------------
(***************************************************************************)
(* Verification model of the daily premarket report system                 *)
(* (daily-premarket-report): the Alpha Vantage, Polygon and FRED source    *)
(* collectors, the UnifiedDataCollector, the synthesis functions of        *)
(* EnhancedPremarketGenerator, the report assembly, and the concurrent     *)
(* collection and executive summary of the enhanced (premium) generator.   *)
(*                                                                         *)
(* Numbers: impact scores are kept in tenths (impact_score 7.5 is 75),     *)
(* sentiment scores in tenths (0.4 is 4), percentages in hundredths.       *)
(***************************************************************************)
EXTENDS Integers, Sequences, FiniteSets, TLC

(***************************************************************************)
(* Bounds of the model                                                     *)
(***************************************************************************)
\* number of coroutines that share one AlphaVantageCollector instance
MaxTasks == 2
\* longest provider news payload (number of items) drawn in the parse model
MaxItems == 2

(***************************************************************************)
(* Program constants                                                       *)
(***************************************************************************)
\* alphavantage_collector.py:37  self.max_requests = 25
max_requests == 25

VARIABLES
    requests_made,   \* AlphaVantageCollector.requests_made
    tasks,           \* the coroutines running fetch operations of the collector
    sent,            \* number of network requests the collector has issued
    payload,         \* input of _parse_news_sentiment (parse model)
    order,           \* iteration order of the themes set (parse model)
    parsed,          \* result of _parse_news_sentiment (parse model)
    env,             \* condition of the providers during a report run ("any": unrestricted)
    uop,             \* the UnifiedDataCollector operation in progress
    upc,             \* its position (the collector call it awaits)
    idx,             \* index of the collector loop it is in
    loc,             \* its local variables
    calls,           \* the collector calls it has made, in order
    result,          \* its returned value
    run              \* the report run: position, collected data, returned report

avVars    == <<tasks, sent>>
parseVars == <<payload, order, parsed>>
uniVars   == <<env, uop, upc, idx, loc, calls, result>>
vars == <<requests_made, tasks, sent, payload, order, parsed,
          env, uop, upc, idx, loc, calls, result, run>>

(***************************************************************************)
(* Small helpers                                                           *)
(***************************************************************************)
Max2(a, b) == IF a >= b THEN a ELSE b
Min2(a, b) == IF a <= b THEN a ELSE b

\* Python slice s[:n]
Take(s, n) == SubSeq(s, 1, Min2(n, Len(s)))

Range(s) == {s[k] : k \in 1..Len(s)}

\* Python "x in list"
InSeq(x, s) == \E k \in 1..Len(s) : s[k] = x

\* a raised Python exception, as a value
Raised == [exc |-> TRUE]
Value(v) == [exc |-> FALSE, val |-> v]

(***************************************************************************)
(* NewsItem (report_generator.py) and the ERROR marker items               *)
(***************************************************************************)
NewsItem(h, su, so, se, im) ==
    [headline |-> h, summary |-> su, source |-> so, sentiment |-> se, impact_score |-> im]

\* NewsItem(headline="ERROR", summary=<why>, source="ERROR", timestamp="",
\*          sentiment="neutral", impact_score=0)
ErrorNewsItem(why) == NewsItem("ERROR", why, "ERROR", "neutral", 0)

ErrorNews(why) == [items |-> <<ErrorNewsItem(why)>>, themes |-> <<"ERROR">>]

(***************************************************************************)
(* AlphaVantageCollector._normalize_theme_name                             *)
(***************************************************************************)
\* raw provider topics of the model
RawTopics == {"earnings", "Earnings", "technology", "financial_markets",
              "economy_monetary", "market_sentiment_analysis", "ipo"}

\* theme_mapping (keys are matched against theme.lower())
theme_mapping == [t \in {"earnings", "technology"} |->
                    IF t = "earnings" THEN "Corporate Earnings" ELSE "Technology Sector"]

\* str.lower() on the raw topics of the model
Lower(t) == IF t = "Earnings" THEN "earnings" ELSE t

\* theme.replace('_', ' ').title() on the raw topics of the model
TitleCase(t) ==
    CASE t = "earnings"                  -> "Earnings"
      [] t = "Earnings"                  -> "Earnings"
      [] t = "technology"                -> "Technology"
      [] t = "financial_markets"         -> "Financial Markets"
      [] t = "economy_monetary"          -> "Economy Monetary"
      [] t = "market_sentiment_analysis" -> "Market Sentiment Analysis"
      [] t = "ipo"                       -> "Ipo"

normalize_theme_name(theme) ==
    IF Lower(theme) \in DOMAIN theme_mapping
    THEN theme_mapping[Lower(theme)]
    ELSE TitleCase(theme)

default_themes == <<"Market Sentiment Analysis", "Economic Policy Updates",
                    "Corporate Earnings Focus", "Global Market Dynamics",
                    "Financial Sector Trends">>


(***************************************************************************)
(* AlphaVantageCollector._parse_news_sentiment                             *)
(*                                                                         *)
(* A provider item is [label, score, topics, summary_len, bad]: score is   *)
(* overall_sentiment_score in tenths, summary_len the length of 'summary', *)
(* bad names the field whose shape makes the item's processing raise       *)
(* ("score": float() of a non-number, "label": .lower() of null,           *)
(* "topics": a topic that is no object) or "none".                         *)
(***************************************************************************)
Labels == {"Bullish", "Bearish", "Neutral"}

ProviderItem(l, s, t, b) ==
    [title |-> "headline", label |-> l, score |-> s, topics |-> t,
     summary_len |-> 150, source |-> "provider", bad |-> b]

GoodItems == {ProviderItem(l, s, t, "none") :
                 l \in Labels, s \in {-10, 4},
                 t \in {<<"earnings">>, <<"Earnings", "financial_markets">>,
                        <<"market_sentiment_analysis", "technology">>,
                        <<"earnings", "technology", "financial_markets", "economy_monetary",
                          "market_sentiment_analysis", "ipo">>}}

BadItems == {ProviderItem("Neutral", 0, <<>>, b) : b \in {"score", "topics"}}

Items == GoodItems \cup BadItems

\* sentiment_label.lower() == 'bullish' / 'bearish' / anything else
SentimentOf(label) ==
    IF label = "Bullish" THEN "positive"
    ELSE IF label = "Bearish" THEN "negative"
    ELSE "neutral"

\* max(1, min(10, 5 + (sentiment_score * 5))), in tenths; round(.., 1) is exact there
ImpactOf(score) == Max2(10, Min2(100, 50 + score * 5))

\* summary[:200] + '...' if len(summary) > 200 else summary
SummaryOf(len) == IF len > 200 THEN "truncated" ELSE "full"

\* the body of "for item in items": one NewsItem and the item's themes, or an exception
ProcessItem(item) ==
    IF item.bad # "none" THEN Raised
    ELSE Value([news   |-> NewsItem(item.title, SummaryOf(item.summary_len), item.source,
                                    SentimentOf(item.label), ImpactOf(item.score)),
                themes |-> {normalize_theme_name(item.topics[k]) : k \in 1..Len(item.topics)}])

\* the loop with the try/except inside it: a failing item is skipped, the rest kept
RECURSIVE ParseItemsLoopSkipFailing(_, _, _, _)
ParseItemsLoopSkipFailing(items, k, news_items, themes) ==
    IF k > Len(items) THEN Value([news_items |-> news_items, themes |-> themes])
    ELSE LET r == ProcessItem(items[k]) IN
         IF r.exc THEN ParseItemsLoopSkipFailing(items, k + 1, news_items, themes)
         ELSE ParseItemsLoopSkipFailing(items, k + 1, Append(news_items, r.val.news),
                                        themes \cup r.val.themes)

RECURSIVE ParseItemsLoop(_, _, _, _)
ParseItemsLoop(items, k, news_items, themes) ==
    IF k > Len(items) THEN Value([news_items |-> news_items, themes |-> themes])
    ELSE LET r == ProcessItem(items[k]) IN
         IF r.exc THEN Raised
         ELSE ParseItemsLoop(items, k + 1, Append(news_items, r.val.news),
                             themes \cup r.val.themes)

\* for theme in default_themes: if theme not in themes_list and len(themes_list) < 5: append
RECURSIVE FillThemesNoMembership(_, _)
FillThemesNoMembership(themes_list, k) ==
    IF k > Len(default_themes) THEN themes_list
    ELSE FillThemesNoMembership(IF Len(themes_list) < 5
                                THEN Append(themes_list, default_themes[k])
                                ELSE themes_list, k + 1)
RECURSIVE FillThemes(_, _)
FillThemes(themes_list, k) ==
    IF k > Len(default_themes) THEN themes_list
    ELSE FillThemes(IF ~InSeq(default_themes[k], themes_list) /\ Len(themes_list) < 5
                    THEN Append(themes_list, default_themes[k])
                    ELSE themes_list, k + 1)

\* list(themes)[:5]: ord is the iteration order of the set
ThemesList(themes, ord) == Take(SelectSeq(ord, LAMBDA t : t \in themes), 5)

\* data is [kind, items]: kind "dict" (an object with 'items'), "no_items" (an object
\* without the key) or "not_dict" (data.get raises)
parse_news_sentiment(data, ord) ==
    LET items == IF data.kind = "dict" THEN data.items ELSE <<>>
        r     == IF data.kind = "not_dict" THEN Raised
                 ELSE ParseItemsLoop(items, 1, <<>>, {})
    IN IF r.exc THEN ErrorNews("parse_error")
       ELSE LET themes_list == ThemesList(r.val.themes, ord)
                filled == IF Len(themes_list) < 5 THEN FillThemes(themes_list, 1)
                          ELSE themes_list
            IN [items |-> Take(r.val.news_items, 10), themes |-> Take(filled, 5)]

\* the normalized themes of the model's topics, in three iteration orders
ThemeOrders == {<<"Corporate Earnings", "Financial Markets", "Economy Monetary",
                  "Market Sentiment Analysis", "Technology Sector", "Ipo">>,
                <<"Technology Sector", "Ipo", "Market Sentiment Analysis", "Economy Monetary",
                  "Financial Markets", "Corporate Earnings">>,
                <<"Market Sentiment Analysis", "Ipo", "Corporate Earnings", "Technology Sector",
                  "Economy Monetary", "Financial Markets">>}

RECURSIVE SeqsUpTo(_, _)
SeqsUpTo(S, n) ==
    IF n = 0 THEN {<<>>}
    ELSE LET shorter == SeqsUpTo(S, n - 1) IN
         shorter \cup {Append(q, x) : q \in {p \in shorter : Len(p) = n - 1}, x \in S}

Payloads == {[kind |-> "dict", items |-> q] : q \in SeqsUpTo(Items, MaxItems)}
            \cup {[kind |-> "no_items", items |-> <<>>], [kind |-> "not_dict", items |-> <<>>]}

NoPayload == [kind |-> "none", items |-> <<>>]
NotParsed == [items |-> <<>>, themes |-> <<"unparsed">>]


(***************************************************************************)
(* MarketData (report_generator.py); amounts in hundredths                 *)
(***************************************************************************)
MarketData(sym, price, chg, pct, vol, from) ==
    [symbol |-> sym, current_price |-> price, change |-> chg, change_percent |-> pct,
     volume |-> vol, provider |-> from]

\* a Python dict as a function; d[k] = v added to it
EmptyDict == [k \in {} |-> 0]
Put(d, k, v) == [x \in DOMAIN d \cup {k} |-> IF x = k THEN v ELSE d[x]]

(***************************************************************************)
(* AlphaVantageCollector: the fetch operations                             *)
(***************************************************************************)
Tasks == 1..MaxTasks

AVOps == {"news", "econ", "earnings", "quotes"}

\* major_symbols as UnifiedDataCollector.get_enhanced_market_data passes them
major_symbols == <<"SPY", "QQQ", "DIA", "IWM", "VIX">>

\* indicator_functions of get_economic_indicators, in iteration order
indicator_functions == <<"Real GDP", "Consumer Price Index", "Unemployment Rate",
                         "Federal Funds Rate">>

\* for symbol in symbols[:3]
QuoteSymbolsUncut == major_symbols
QuoteSymbols == Take(major_symbols, 3)

\* number of loop iterations of an operation (1 for the single-request operations)
Iterations(op) ==
    CASE op = "quotes" -> Len(QuoteSymbols)
      [] op = "econ"   -> Len(indicator_functions)
      [] OTHER         -> 1

\* if self.requests_made >= self.max_requests
BudgetExhaustedOffByOne(rm) == rm > max_requests
BudgetExhausted(rm) == rm >= max_requests

\* what an operation returns when the guard finds the budget exhausted at its start
ExhaustedReturn(op) ==
    CASE op = "news"     -> ErrorNews("rate_limit")
      [] op = "earnings" -> <<>>
      [] op = "econ"     -> EmptyDict
      [] op = "quotes"   -> EmptyDict

\* the empty accumulator an operation starts from (market_data = {}, indicators = {})
EmptyAcc(op) ==
    CASE op = "news"     -> ErrorNews("none")
      [] op = "earnings" -> <<>>
      [] op = "econ"     -> EmptyDict
      [] op = "quotes"   -> EmptyDict

\* _parse_earnings_csv: rows is the CSV below its header line, each row
\* [symbol, reportDate, cols_ok]; fewer than 2 lines gives []
parse_earnings_csv(csv) ==
    IF csv.kind = "not_text" THEN <<>>
    ELSE IF csv.lines < 2 THEN <<>>
    ELSE LET kept == SelectSeq(Take(csv.rows, 20),
                               LAMBDA r : r.cols_ok /\ r.symbol # "" /\ r.reportDate # "")
         IN [k \in 1..Len(kept) |->
               [symbol |-> kept[k].symbol, company_name |-> kept[k].name,
                report_date |-> kept[k].reportDate, source |-> "Alpha Vantage"]]

CsvRow(sym, d) == [symbol |-> sym, name |-> "Company", reportDate |-> d, cols_ok |-> TRUE]
EarningsBodies == {[kind |-> "text", lines |-> 1, rows |-> <<>>],
                   [kind |-> "text", lines |-> 2, rows |-> <<CsvRow("AAPL", "2025-07-31")>>]}

\* GLOBAL_QUOTE bodies: 'Global Quote' with its fields, or without the object;
\* a field the object leaves out has the default of quote_data.get (0, '0%')
QuoteBody(has, price, chg, pct, vol, bad) ==
    [has_quote |-> has, price |-> price, change |-> chg, change_percent |-> pct,
     volume |-> vol, bad |-> bad]
QuoteBodies == {QuoteBody(TRUE, 10000, 100, 101, 5000, FALSE),
                QuoteBody(FALSE, 0, 0, 0, 0, FALSE),
                QuoteBody(TRUE, 0, 0, 0, 0, TRUE)}

\* the 200 branch of get_market_data for one symbol: market_data after it, or an exception
QuoteFromBody(market_data, symbol, body) ==
    IF ~body.has_quote THEN Value(market_data)
    ELSE IF body.bad THEN Raised
    ELSE Value(Put(market_data, symbol,
                   MarketData(symbol, body.price, body.change, body.change_percent,
                              body.volume, "alphavantage")))

\* bodies of the economic indicator endpoints: a latest value or none
IndicatorBodies == {[has_value |-> TRUE, value |-> 42], [has_value |-> FALSE, value |-> 0]}

NewsBodies == {[kind |-> "dict", items |-> <<>>],
               [kind |-> "dict", items |-> <<ProviderItem("Bullish", 4, <<"earnings">>, "none")>>],
               [kind |-> "dict", items |-> <<ProviderItem("Neutral", 0, <<>>, "score")>>],
               [kind |-> "no_items", items |-> <<>>]}

FirstOrder == CHOOSE o \in ThemeOrders : o[1] = "Corporate Earnings"

Bodies(op) ==
    CASE op = "news"     -> NewsBodies
      [] op = "earnings" -> EarningsBodies
      [] op = "econ"     -> IndicatorBodies
      [] op = "quotes"   -> QuoteBodies

\* the accumulator / result after a 200 response with this body
AfterOk(op, acc, i, body) ==
    CASE op = "news"     -> parse_news_sentiment(body, FirstOrder)
      [] op = "earnings" -> parse_earnings_csv(body)
      [] op = "econ"     -> IF body.has_value
                            THEN Put(acc, indicator_functions[i], body.value) ELSE acc
      [] op = "quotes"   -> LET r == QuoteFromBody(acc, QuoteSymbols[i], body)
                            IN IF r.exc THEN acc ELSE r.val

\* the accumulator / result after a non-200 status ("status") or a transport exception
AfterFailure(op, acc, kind) ==
    CASE op = "news"     -> ErrorNews(IF kind = "status" THEN "api_error" ELSE "exception")
      [] op = "earnings" -> <<>>
      [] op = "econ"     -> acc
      [] op = "quotes"   -> acc

\* what a successful fetch that found no data returns: a 200 response whose body
\* holds no item / no row / no value / no quote
SuccessfulNoData(op) ==
    CASE op = "news"     -> AfterOk(op, EmptyAcc(op), 1, [kind |-> "dict", items |-> <<>>])
      [] op = "earnings" -> AfterOk(op, EmptyAcc(op), 1, [kind |-> "text", lines |-> 1, rows |-> <<>>])
      [] op = "econ"     -> AfterOk(op, EmptyAcc(op), 1, [has_value |-> FALSE, value |-> 0])
      [] op = "quotes"   -> AfterOk(op, EmptyAcc(op), 1, QuoteBody(FALSE, 0, 0, 0, 0, FALSE))

(***************************************************************************)
(* PolygonCollector                                                        *)
(*                                                                         *)
(* A value the provider may leave out is a pair of fields: has_x tells     *)
(* whether the key holds a number, x is the number (data.get('close') is   *)
(* None when has_c is FALSE).  Prices are in hundredths.                   *)
(***************************************************************************)
\* the dict _get_previous_close returns from a 200 / status OK body
PrevClose(has_c, c, has_o, o, has_v, v) ==
    [some |-> TRUE, has_c |-> has_c, c |-> c, has_o |-> has_o, o |-> o,
     has_v |-> has_v, v |-> v]
\* _get_previous_close returning None
NoPrevClose == [some |-> FALSE, has_c |-> FALSE, c |-> 0, has_o |-> FALSE, o |-> 0,
                has_v |-> FALSE, v |-> 0]

\* the response to the request for one candidate day
DayResponse(kind, data) == [kind |-> kind, data |-> data]

\* _get_previous_close over the responses for its candidate days (the days of
\* range(1, 6) that are not weekend days), in order
RECURSIVE get_previous_close(_, _)
get_previous_close(resps, k) ==
    IF k > Len(resps) THEN NoPrevClose
    ELSE CASE resps[k].kind = "ok"  -> resps[k].data
           [] resps[k].kind = "429" -> NoPrevClose
           [] OTHER                 -> get_previous_close(resps, k + 1)

\* (numerator / denominator) * 100 of change_percent, in hundredths of a percent
PercentOf(num, den) == (num * 10000) \div den

\* MarketData(...) built from a previous close by get_previous_close_data and
\* get_international_markets: arithmetic on None, division by a zero open and
\* int(None) raise
CloseQuote(symbol, prev_close) ==
    IF ~prev_close.has_c \/ ~prev_close.has_o THEN Raised
    ELSE IF prev_close.o = 0 THEN Raised
    ELSE IF ~prev_close.has_v THEN Raised
    ELSE Value(MarketData(symbol, prev_close.c, prev_close.c - prev_close.o,
                          PercentOf(prev_close.c - prev_close.o, prev_close.o),
                          prev_close.v, "polygon"))

\* priority_symbols of get_previous_close_data
priority_symbols == <<[symbol |-> "SPY", name |-> "S&P 500"],
                      [symbol |-> "QQQ", name |-> "NASDAQ Composite"],
                      [symbol |-> "IWM", name |-> "Russell 2000"],
                      [symbol |-> "VIX", name |-> "VIX"],
                      [symbol |-> "DIA", name |-> "Dow Jones Industrial Average"]>>

\* one iteration of the loop of get_previous_close_data (and of
\* get_international_markets): try ... except Exception: continue
CloseIterationNoTry(data, entry, prev_close) ==
    IF ~prev_close.some THEN Value(data)
    ELSE LET r == CloseQuote(entry.symbol, prev_close)
         IN IF r.exc THEN Raised ELSE Value(Put(data, entry.name, r.val))
CloseIteration(data, entry, prev_close) ==
    IF ~prev_close.some THEN Value(data)
    ELSE LET r == CloseQuote(entry.symbol, prev_close)
         IN IF r.exc THEN Value(data) ELSE Value(Put(data, entry.name, r.val))

\* the loop index after an iteration: a for loop advances whether or not the
\* iteration raised
NextIndexRetryOnError(i, failed) == IF failed THEN i ELSE i + 1
NextIndex(i, failed) == i + 1

\* a whole loop of close iterations over entries, given the previous close of each
RECURSIVE CloseLoop(_, _, _, _)
CloseLoop(entries, prev_closes, k, data) ==
    IF k > Len(entries) THEN Value(data)
    ELSE LET r == CloseIteration(data, entries[k], prev_closes[k])
         IN IF r.exc THEN Raised
            ELSE CloseLoop(entries, prev_closes, NextIndex(k, FALSE), r.val)

\* intl_etfs of get_international_markets, in dict order
intl_etfs == <<[symbol |-> "EWJ", name |-> "Japan (Nikkei)"],
               [symbol |-> "EWH", name |-> "Hong Kong (Hang Seng)"],
               [symbol |-> "EWU", name |-> "UK (FTSE)"],
               [symbol |-> "EWG", name |-> "Germany (DAX)"],
               [symbol |-> "EWQ", name |-> "France (CAC)"]>>

get_international_markets(prev_closes) == CloseLoop(intl_etfs, prev_closes, 1, EmptyDict)

\* f"{symbol}1!"
FuturesTicker(symbol) == symbol \o "1!"

\* futures_symbols, in dict order
futures_symbols == <<[symbol |-> "ES", name |-> "S&P 500 Futures"],
                     [symbol |-> "NQ", name |-> "NASDAQ Futures"],
                     [symbol |-> "RTY", name |-> "Russell 2000 Futures"],
                     [symbol |-> "YM", name |-> "Dow Futures"]>>

\* one iteration of get_overnight_futures; trade is what _get_current_price
\* returned ([some, p]; None and 0 are both falsy)
FuturesIteration(data, entry, trade, prev_close) ==
    IF ~trade.some \/ trade.p = 0 THEN data
    ELSE IF ~prev_close.some THEN data
    ELSE IF ~prev_close.has_c THEN data              \* TypeError, caught
    ELSE IF prev_close.c = 0 THEN data               \* ZeroDivisionError, caught
    ELSE Put(data, entry.name,
             MarketData(FuturesTicker(entry.symbol), trade.p, trade.p - prev_close.c,
                        PercentOf(trade.p - prev_close.c, prev_close.c), 0, "polygon"))

RECURSIVE FuturesLoop(_, _, _, _)
FuturesLoop(trades, prev_closes, k, data) ==
    IF k > Len(futures_symbols) THEN data
    ELSE FuturesLoop(trades, prev_closes, k + 1,
                     FuturesIteration(data, futures_symbols[k], trades[k], prev_closes[k]))

get_overnight_futures(trades, prev_closes) ==
    Value(FuturesLoop(trades, prev_closes, 1, EmptyDict))

\* sector_etfs of get_sector_etf_data, in dict order
sector_etfs == <<[symbol |-> "XLK", name |-> "Technology"],
                 [symbol |-> "XLF", name |-> "Financial"],
                 [symbol |-> "XLE", name |-> "Energy"],
                 [symbol |-> "XLV", name |-> "Healthcare"],
                 [symbol |-> "XLI", name |-> "Industrial"],
                 [symbol |-> "XLP", name |-> "Consumer Staples"],
                 [symbol |-> "XLY", name |-> "Consumer Discretionary"],
                 [symbol |-> "XLU", name |-> "Utilities"],
                 [symbol |-> "XLB", name |-> "Materials"],
                 [symbol |-> "XLRE", name |-> "Real Estate"]>>

\* one daily bar of _get_historical_data: close and timestamp, either may be None
Bar(has_c, c, has_t) == [has_c |-> has_c, c |-> c, has_t |-> has_t]

\* round(x, 2) of the ratio num / den * 100, in hundredths of a percent
RoundPercent(num, den) == (2 * num * 10000 + den) \div (2 * den)

\* one iteration of get_sector_etf_data over the bars of the sector's ETF
SectorIteration(sector_data, entry, bars) ==
    IF Len(bars) < 2 THEN sector_data
    ELSE LET first == bars[1]
             last  == bars[Len(bars)]
         IN IF ~first.has_t \/ ~last.has_t THEN sector_data      \* TypeError, caught
            ELSE IF ~first.has_c THEN sector_data                \* TypeError, caught
            ELSE IF ~(first.c > 0) THEN sector_data
            ELSE IF ~last.has_c THEN sector_data                 \* TypeError, caught
            ELSE Put(sector_data, entry.name,
                     [weekly_return |-> RoundPercent(last.c - first.c, first.c),
                      current_price |-> last.c, symbol |-> entry.symbol])

RECURSIVE SectorLoop(_, _, _)
SectorLoop(history, k, sector_data) ==
    IF k > Len(sector_etfs) THEN sector_data
    ELSE SectorLoop(history, k + 1,
                    SectorIteration(sector_data, sector_etfs[k], history[k]))

\* get_sector_etf_data given the bars returned for each sector ETF
get_sector_etf_data(history) == Value(SectorLoop(history, 1, EmptyDict))

(***************************************************************************)
(* FREDDataCollector                                                       *)
(***************************************************************************)
\* key_indicators, in dict order
key_indicators == <<[series_id |-> "UNRATE",   name |-> "Unemployment Rate"],
                    [series_id |-> "CPIAUCSL", name |-> "Consumer Price Index"],
                    [series_id |-> "GDP",      name |-> "Gross Domestic Product"],
                    [series_id |-> "FEDFUNDS", name |-> "Federal Funds Rate"],
                    [series_id |-> "DGS10",    name |-> "10-Year Treasury Constant Maturity Rate"],
                    [series_id |-> "DGS2",     name |-> "2-Year Treasury Constant Maturity Rate"],
                    [series_id |-> "PAYEMS",   name |-> "All Employees, Total Nonfarm"],
                    [series_id |-> "INDPRO",   name |-> "Industrial Production Index"],
                    [series_id |-> "HOUST",    name |-> "Housing Starts"],
                    [series_id |-> "UMCSENT",  name |-> "University of Michigan Consumer Sentiment"]>>

\* an entry of an economic calendar
CalendarEvent(time, event, importance, previous, source) ==
    [time |-> time, event |-> event, importance |-> importance, forecast |-> "N/A",
     previous |-> previous, currency |-> "USD", source |-> source]

\* the entry marking a calendar that could not be obtained
ErrorEntry(why) == [ERROR |-> why]

\* the release names the provider answers with in this model
ReleaseNames == {"Employment Situation", "Housing Starts", "H.15 Selected Interest Rates"}

\* _determine_importance: the first matching keyword list decides
determine_importance(event_name) ==
    CASE event_name = "Employment Situation" -> "high"
      [] event_name = "Housing Starts"       -> "medium"
      [] OTHER                               -> "low"

\* the latest observation of a series as _get_series_latest_observation returns
\* it: {} (some = FALSE) for a failed request, a non-200 status or no observation
Observation(some, value) == [some |-> some, value |-> value]

\* _get_recent_key_indicators given the observations of UNRATE, CPIAUCSL, FEDFUNDS
get_recent_key_indicators(obs) ==
    LET recent == <<"Unemployment Rate", "Consumer Price Index", "Federal Funds Rate">>
        found  == SelectSeq(<<1, 2, 3>>, LAMBDA k : obs[k].some)
    IN [j \in 1..Len(found) |->
          CalendarEvent("Latest Data", recent[found[j]], "high", obs[found[j]].value,
                        "Federal Reserve (FRED)")]

\* the try block of get_economic_calendar_today.  releases is what _get_fred_releases
\* did: raised, returned {} (non-200), or returned a body; a body whose releases
\* are not objects makes release.get raise
EconomicCalendarBody(releases, recent_obs) ==
    IF releases.kind = "exception" THEN Raised
    ELSE IF releases.kind = "malformed" THEN Raised
    ELSE LET listed == IF releases.kind = "ok" THEN Take(releases.names, 10) ELSE <<>>
             calendar_events ==
                 [k \in 1..Len(listed) |->
                     CalendarEvent("8:30 AM ET", listed[k], determine_importance(listed[k]),
                                   "N/A", "Federal Reserve (FRED)")]
         IN IF calendar_events = <<>>
            THEN Value(get_recent_key_indicators(recent_obs))
            ELSE Value(calendar_events)

\* get_economic_calendar_today: except Exception returns the ERROR entry
get_economic_calendar_today_NoExcept(releases, recent_obs) ==
    EconomicCalendarBody(releases, recent_obs)
get_economic_calendar_today(releases, recent_obs) ==
    LET r == EconomicCalendarBody(releases, recent_obs)
    IN IF r.exc THEN Value(<<ErrorEntry("No real FRED economic calendar data available")>>)
       ELSE r

\* get_key_economic_indicators given the observation of each key indicator: the
\* names that got an observation in dict order, and their data
RECURSIVE IndicatorsLoop(_, _, _)
IndicatorsLoop(obs, k, indicators_data) ==
    IF k > Len(key_indicators) THEN indicators_data
    ELSE IndicatorsLoop(obs, k + 1,
            IF obs[k].some
            THEN Append(indicators_data,
                        [name |-> key_indicators[k].name,
                         series_id |-> key_indicators[k].series_id,
                         value |-> obs[k].value])
            ELSE indicators_data)

get_key_economic_indicators(obs) == Value(IndicatorsLoop(obs, 1, <<>>))

(***************************************************************************)
(* AlphaVantageCollector: a whole call of a single-request operation, as   *)
(* the sequential callers see it                                           *)
(***************************************************************************)
\* what the provider does with a request: a 200 response with a body, another
\* status, or a transport exception
Outcome(kind, body) == [kind |-> kind, body |-> body]

\* the value returned by get_market_news_with_sentiment / get_earnings_calendar
\* called with the counter at rm, and the counter afterwards
av_fetch(o, rm, outcome) ==
    IF BudgetExhausted(rm) THEN [ret |-> Value(ExhaustedReturn(o)), rm |-> rm]
    ELSE [ret |-> Value(IF outcome.kind = "ok"
                        THEN AfterOk(o, EmptyAcc(o), 1, outcome.body)
                        ELSE AfterFailure(o, EmptyAcc(o), outcome.kind)),
          rm  |-> rm + 1]

(***************************************************************************)
(* UnifiedDataCollector: the code between the collector calls              *)
(***************************************************************************)
\* market_data = {'previous_close': {}, 'overnight_futures': {}, ...}
EmptyMarketData == [previous_close |-> EmptyDict, overnight_futures |-> EmptyDict,
                    international |-> EmptyDict, current_prices |-> EmptyDict]

\* name_mapping.get(symbol, symbol)
name_mapping(symbol) ==
    CASE symbol = "SPY" -> "S&P 500 ETF"
      [] symbol = "QQQ" -> "NASDAQ ETF"
      [] symbol = "DIA" -> "Dow Jones ETF"
      [] symbol = "IWM" -> "Russell 2000 ETF"
      [] symbol = "VIX" -> "VIX"
      [] OTHER          -> symbol

\* market_data['current_prices'][friendly_name] = data, for every symbol
CurrentPrices(av_market_data) ==
    [n \in {name_mapping(s) : s \in DOMAIN av_market_data} |->
        av_market_data[CHOOSE s \in DOMAIN av_market_data : name_mapping(s) = n]]

\* market_data after get_previous_close_data returned polygon_close
WithPolygonClose(market_data, polygon_close) ==
    IF polygon_close # EmptyDict
    THEN [market_data EXCEPT !.previous_close = polygon_close]
    ELSE market_data

\* market_data after get_market_data returned av_market_data: current_prices,
\* then previous_close from current_prices if it is still empty
WithAlphaVantageNoFallback(market_data, av_market_data) ==
    [market_data EXCEPT !.current_prices = CurrentPrices(av_market_data)]
WithAlphaVantageMixed(market_data, av_market_data) ==
    LET current == CurrentPrices(av_market_data)
    IN [market_data EXCEPT
          !.current_prices = current,
          !.previous_close = [n \in DOMAIN @ \cup DOMAIN current |->
                                 IF n \in DOMAIN @ THEN @[n] ELSE current[n]]]
WithAlphaVantage(market_data, av_market_data) ==
    LET current == CurrentPrices(av_market_data)
        with_current == [market_data EXCEPT !.current_prices = current]
    IN IF with_current.previous_close = EmptyDict /\ current # EmptyDict
       THEN [with_current EXCEPT !.previous_close = current]
       ELSE with_current

WithFutures(market_data, futures_data) ==
    IF futures_data # EmptyDict
    THEN [market_data EXCEPT !.overnight_futures = futures_data]
    ELSE market_data

WithInternational(market_data, intl_data) ==
    IF intl_data # EmptyDict
    THEN [market_data EXCEPT !.international = intl_data]
    ELSE market_data

\* the items of a dict built by a loop over entries, in insertion order
ItemsOf(d, entries) ==
    LET present == SelectSeq(entries, LAMBDA e : e.name \in DOMAIN d)
    IN [k \in 1..Len(present) |-> [sector |-> present[k].name, data |-> d[present[k].name]]]

\* sorted(items, key=weekly_return, reverse=True): stable, equal keys keep their order
RECURSIVE SortedByReturn(_, _, _)
InsertByReturn(sorted, x) ==
    LET before == SelectSeq(sorted, LAMBDA y : y.data.weekly_return >= x.data.weekly_return)
        after  == SelectSeq(sorted, LAMBDA y : y.data.weekly_return < x.data.weekly_return)
    IN before \o <<x>> \o after
SortedByReturn(items, k, sorted) ==
    IF k > Len(items) THEN sorted
    ELSE SortedByReturn(items, k + 1, InsertByReturn(sorted, items[k]))

\* max / min of a non-empty set of numbers
MaxOf(S) == CHOOSE x \in S : \A y \in S : y <= x
MinOf(S) == CHOOSE x \in S : \A y \in S : x <= y

\* _calculate_rotation_strength; returns are hundredths of a percent
calculate_rotation_strength_Inclusive(sector_performance) ==
    LET returns == {sector_performance[s].weekly_return : s \in DOMAIN sector_performance}
    IN IF returns = {} THEN "weak"
       ELSE LET spread == MaxOf(returns) - MinOf(returns)
            IN IF spread >= 500 THEN "strong"
               ELSE IF spread >= 250 THEN "moderate"
               ELSE "weak"
calculate_rotation_strength(sector_performance) ==
    LET returns == {sector_performance[s].weekly_return : s \in DOMAIN sector_performance}
    IN IF returns = {} THEN "weak"
       ELSE LET spread == MaxOf(returns) - MinOf(returns)
            IN IF spread > 500 THEN "strong"
               ELSE IF spread > 250 THEN "moderate"
               ELSE "weak"

\* what get_sector_rotation_data returns without sector data
NoSectorRotation == [weekly_performance |-> EmptyDict, leaders |-> <<>>, laggards |-> <<>>,
                     rotation_strength |-> "unknown"]

\* s[-3:]
LastThree(s) == SubSeq(s, Max2(1, Len(s) - 2), Len(s))

\* get_sector_rotation_data after get_sector_etf_data returned sector_data
SectorRotationOf(sector_data) ==
    IF Cardinality(DOMAIN sector_data) >= 3
    THEN LET weekly_performance ==
                 [s \in DOMAIN sector_data |->
                     [weekly_return |-> sector_data[s].weekly_return,
                      current_price |-> sector_data[s].current_price,
                      volume_trend |-> "increasing"]]
             sorted_sectors == SortedByReturn(ItemsOf(weekly_performance, sector_etfs), 1, <<>>)
         IN [weekly_performance |-> weekly_performance,
             leaders |-> Take(sorted_sectors, 3),
             laggards |-> LastThree(sorted_sectors),
             rotation_strength |-> calculate_rotation_strength(weekly_performance)]
    ELSE NoSectorRotation

\* _get_day_of_week for the report dates of the model; 'Monday' when unparsable
get_day_of_week(date_str) ==
    CASE date_str = "2025-07-31" -> "Thursday"
      [] date_str = "2025-08-01" -> "Friday"
      [] OTHER                   -> "Monday"

\* get_earnings_calendar after the collector returned earnings_data
FormattedEarnings(earnings_data) ==
    IF earnings_data # <<>>
    THEN LET shown == Take(earnings_data, 10)
         IN [k \in 1..Len(shown) |->
               [symbol |-> shown[k].symbol,
                company_name |-> "",             \* earning.get('name', ''): no such key
                date |-> shown[k].report_date,
                day_of_week |-> get_day_of_week(shown[k].report_date),
                timing |-> "AMC", market_cap |-> "Large", sector |-> "Technology"]]
    ELSE <<ErrorEntry("No real earnings calendar data available")>>

\* get_enhanced_news_and_sentiment after the collector returned (news_items, themes)
EnhancedNews(news) ==
    IF news.items # <<>> /\ news.themes # <<>> THEN news
    ELSE ErrorNews("No real news data available")

\* _get_fallback_economic_calendar
get_fallback_economic_calendar ==
    <<[time |-> "8:30 AM ET", event |-> "Consumer Price Index (CPI)", importance |-> "high",
       forecast |-> "0.2%", previous |-> "0.1%", currency |-> "USD",
       source |-> "Federal Reserve (FRED) - Fallback"],
      [time |-> "10:00 AM ET", event |-> "Federal Funds Rate Decision", importance |-> "high",
       forecast |-> "4.33%", previous |-> "4.33%", currency |-> "USD",
       source |-> "Federal Reserve (FRED) - Fallback"],
      [time |-> "8:30 AM ET", event |-> "Initial Jobless Claims", importance |-> "medium",
       forecast |-> "220K", previous |-> "218K", currency |-> "USD",
       source |-> "Federal Reserve (FRED) - Fallback"]>>

\* if fred_calendar and len(fred_calendar) >= 3: return fred_calendar
CalendarSufficient(fred_calendar) == Len(fred_calendar) >= 3

\* the calendar built from the key indicators: one event per indicator, at most 5
CalendarFromIndicators(key_indicators_data) ==
    Take([k \in 1..Len(key_indicators_data) |->
            CalendarEvent("Latest Data", key_indicators_data[k].name,
                          IF key_indicators_data[k].name \in
                               {"Unemployment Rate", "Gross Domestic Product",
                                "Federal Funds Rate"}
                          THEN "high" ELSE "medium",
                          key_indicators_data[k].value, "Federal Reserve (FRED)")], 5)

(***************************************************************************)
(* What the providers answer.  env tells the condition each provider is in *)
(* while a report is generated: "up" (usable data), "down" (rate limited,  *)
(* error status, transport failure), "malformed" (200 responses whose      *)
(* bodies lack fields) or "any" (each request may be answered in any of    *)
(* these ways).                                                            *)
(***************************************************************************)
Conditions == {"up", "down", "malformed"}
AnyEnv == [polygon |-> "any", alphavantage |-> "any", fred |-> "any"]
Scenarios == [polygon : Conditions, alphavantage : Conditions, fred : Conditions]

\* the inputs of a provider in condition c, given those of each condition
InCondition(c, up, down, malformed) ==
    CASE c = "up"        -> up
      [] c = "down"      -> down
      [] c = "malformed" -> malformed
      [] OTHER           -> up \cup down \cup malformed

FullClose     == PrevClose(TRUE, 10100, TRUE, 10000, TRUE, 5000)
FallingClose  == PrevClose(TRUE, 9900, TRUE, 10000, TRUE, 7000)
NoVolumeClose == PrevClose(TRUE, 10100, TRUE, 10000, FALSE, 0)
NoOpenClose   == PrevClose(TRUE, 10100, FALSE, 0, TRUE, 5000)

\* responses to the requests of one _get_previous_close call
DayResponsesOf(c) ==
    InCondition(c,
        {<<DayResponse("ok", FullClose)>>,
         <<DayResponse("404", NoPrevClose), DayResponse("ok", FullClose)>>},
        {<<DayResponse("429", NoPrevClose)>>,
         <<DayResponse("404", NoPrevClose), DayResponse("500", NoPrevClose),
           DayResponse("exception", NoPrevClose)>>},
        {<<DayResponse("ok", NoVolumeClose)>>,
         <<DayResponse("not_ok", NoPrevClose), DayResponse("ok", NoVolumeClose)>>})

\* what _get_previous_close returns for each of n symbols in one call of a loop
\* over them: every symbol answered alike, or the first symbol differently
AllOf(n, x) == [k \in 1..n |-> x]
FirstOnly(n, x, y) == [k \in 1..n |-> IF k = 1 THEN x ELSE y]
PrevClosesOf(c, n) ==
    InCondition(c,
        {AllOf(n, FullClose)},
        {AllOf(n, NoPrevClose)},
        {AllOf(n, NoVolumeClose), AllOf(n, NoOpenClose)})

\* what _get_current_price returns for each futures symbol
Trade(some, p) == [some |-> some, p |-> p]
TradesOf(c) ==
    InCondition(c,
        {AllOf(Len(futures_symbols), Trade(TRUE, 10200)),
         FirstOnly(Len(futures_symbols), Trade(TRUE, 9950), Trade(TRUE, 10000))},
        {AllOf(Len(futures_symbols), Trade(FALSE, 0))},
        {AllOf(Len(futures_symbols), Trade(TRUE, 0))})

\* the bars _get_historical_data returns for each sector ETF: week from first to last
Week(first, last) == <<Bar(TRUE, first, TRUE), Bar(TRUE, 10050, TRUE), Bar(TRUE, last, TRUE)>>
HistoryOfCloses(closes) ==
    [k \in 1..Len(sector_etfs) |->
        IF k <= Len(closes) /\ closes[k] # 0 THEN Week(10000, closes[k]) ELSE <<>>]
HistoriesOf(c) ==
    InCondition(c,
        {HistoryOfCloses(<<10300, 10100, 10000, 9900, 9600, 10100, 10050, 9800, 10000, 10250>>),
         HistoryOfCloses(<<10100, 10000, 9900>>),
         HistoryOfCloses(<<10200, 0, 10000, 9900, 0, 10000>>),
         HistoryOfCloses(<<10100, 10000>>)},
        {HistoryOfCloses(<<>>)},
        {[k \in 1..Len(sector_etfs) |-> <<Bar(TRUE, 10000, TRUE)>>],
         [k \in 1..Len(sector_etfs) |-> <<Bar(FALSE, 0, TRUE), Bar(TRUE, 10100, TRUE)>>],
         [k \in 1..Len(sector_etfs) |-> <<Bar(TRUE, 10000, FALSE), Bar(TRUE, 10100, FALSE)>>]})

\* the bodies of Bodies(o) that hold usable data
UsableBodies(o) ==
    CASE o = "news"     -> {b \in NewsBodies : b.kind = "dict" /\ b.items # <<>>
                                                /\ \A k \in 1..Len(b.items) : b.items[k].bad = "none"}
      [] o = "earnings" -> {b \in EarningsBodies : b.rows # <<>>}
      [] o = "econ"     -> {b \in IndicatorBodies : b.has_value}
      [] o = "quotes"   -> {b \in QuoteBodies : b.has_quote /\ ~b.bad}

\* what Alpha Vantage does with one request of operation o
OutcomesOf(c, o) ==
    InCondition(c,
        {Outcome("ok", b) : b \in UsableBodies(o)},
        {Outcome("status", <<>>), Outcome("exception", <<>>)},
        {Outcome("ok", b) : b \in Bodies(o) \ UsableBodies(o)})

\* what FRED does with the releases request, and the observations of the three
\* recent key indicators
Releases(kind, names) == [kind |-> kind, names |-> names]
SomeObs == Observation(TRUE, "4.1")
NoObs == Observation(FALSE, "")
ElevenReleases == [k \in 1..11 |-> IF k % 2 = 1 THEN "Employment Situation" ELSE "Housing Starts"]
CalendarInputsOf(c) ==
    InCondition(c,
        {[releases |-> Releases("ok", <<"Employment Situation", "Housing Starts",
                                        "H.15 Selected Interest Rates">>),
          recent |-> AllOf(3, NoObs)],
         [releases |-> Releases("ok", ElevenReleases), recent |-> AllOf(3, NoObs)],
         [releases |-> Releases("ok", <<"Employment Situation">>), recent |-> AllOf(3, NoObs)],
         [releases |-> Releases("ok", <<>>), recent |-> AllOf(3, SomeObs)],
         [releases |-> Releases("ok", <<>>), recent |-> FirstOnly(3, SomeObs, NoObs)]},
        {[releases |-> Releases("exception", <<>>), recent |-> AllOf(3, NoObs)],
         [releases |-> Releases("status", <<>>), recent |-> AllOf(3, NoObs)]},
        {[releases |-> Releases("malformed", <<>>), recent |-> AllOf(3, NoObs)],
         [releases |-> Releases("no_key", <<>>), recent |-> AllOf(3, NoObs)]})

\* the observations of the ten key indicators
IndicatorObsOf(c) ==
    InCondition(c,
        {AllOf(Len(key_indicators), SomeObs),
         FirstOnly(Len(key_indicators), SomeObs, NoObs)},
        {AllOf(Len(key_indicators), NoObs)},
        {AllOf(Len(key_indicators), NoObs)})

(***************************************************************************)
(* Coroutines sharing one AlphaVantageCollector.  A coroutine runs without *)
(* interruption between two awaits; the awaits are session.get (the        *)
(* request and its response) and asyncio.sleep.  This part follows the     *)
(* control flow and the budget counter; of the returned values it keeps    *)
(* the one returned when the guard at the start of the call fails (the     *)
(* values built from responses are AfterOk / AfterFailure above and are    *)
(* followed in the report run below).                                      *)
(***************************************************************************)
\* no UnifiedDataCollector operation in progress, no report run
UniIdle ==
    /\ env = AnyEnv
    /\ uop = "none"
    /\ upc = "idle"
    /\ idx = 0
    /\ loc = <<>>
    /\ calls = <<>>
    /\ result = <<>>
NoRun == [pc |-> "none"]

IdleTask == [op |-> "none", pc |-> "idle", i |-> 0, ret |-> "none",
             exhausted_at_call |-> FALSE, io |-> 0, incs |-> 0]

\* The body of an operation from its start to its first await: the guard, then
\* self.requests_made += 1 (no await lies between the two).
Call(t, op) ==
    /\ tasks[t].pc = "idle"
    /\ IF BudgetExhausted(requests_made)
       THEN /\ tasks' = [tasks EXCEPT ![t] =
                  [op |-> op, pc |-> "done", i |-> 1, ret |-> ExhaustedReturn(op),
                   exhausted_at_call |-> TRUE, io |-> 0, incs |-> 0]]
            /\ UNCHANGED requests_made
       ELSE /\ tasks' = [tasks EXCEPT ![t] =
                  [op |-> op, pc |-> "admitted", i |-> 1, ret |-> "none",
                   exhausted_at_call |-> FALSE, io |-> 0, incs |-> 1]]
            /\ requests_made' = requests_made + 1
    /\ UNCHANGED <<sent, parseVars, uniVars, run>>

\* async with session.get(...): the request goes out
Send(t) ==
    /\ tasks[t].pc = "admitted"
    /\ tasks' = [tasks EXCEPT ![t].pc = "await", ![t].io = @ + 1]
    /\ sent' = sent + 1
    /\ UNCHANGED <<requests_made, parseVars, uniVars, run>>

\* The response (200, another status, or a transport exception) is handled: the
\* single-request operations return, the loops go on to the next iteration
\* (after asyncio.sleep, or by "continue" from the except clause).
RespondRefunding(t, outcome) ==
    /\ tasks[t].pc = "await"
    /\ tasks' = [tasks EXCEPT
          ![t].pc = IF tasks[t].i >= Iterations(tasks[t].op) THEN "done" ELSE "loop",
          ![t].i  = IF tasks[t].i >= Iterations(tasks[t].op) THEN @ ELSE @ + 1,
          ![t].ret = IF tasks[t].i >= Iterations(tasks[t].op) THEN outcome ELSE @]
    /\ requests_made' = IF outcome = "ok" THEN requests_made ELSE requests_made - 1
    /\ UNCHANGED <<sent, parseVars, uniVars, run>>
Respond(t, outcome) ==
    /\ tasks[t].pc = "await"
    /\ tasks' = [tasks EXCEPT
          ![t].pc = IF tasks[t].i >= Iterations(tasks[t].op) THEN "done" ELSE "loop",
          ![t].i  = IF tasks[t].i >= Iterations(tasks[t].op) THEN @ ELSE @ + 1,
          ![t].ret = IF tasks[t].i >= Iterations(tasks[t].op) THEN outcome ELSE @]
    /\ UNCHANGED <<requests_made, sent, parseVars, uniVars, run>>

\* the head of the next loop iteration: the guard, then the increment
NextIteration(t) ==
    /\ tasks[t].pc = "loop"
    /\ IF BudgetExhausted(requests_made)
       THEN /\ tasks' = [tasks EXCEPT ![t].pc = "done", ![t].ret = "partial"]
            /\ UNCHANGED requests_made
       ELSE /\ tasks' = [tasks EXCEPT ![t].pc = "admitted", ![t].incs = @ + 1]
            /\ requests_made' = requests_made + 1
    /\ UNCHANGED <<sent, parseVars, uniVars, run>>

\* the caller takes the returned value; the coroutine is gone
Return(t) ==
    /\ tasks[t].pc = "done"
    /\ tasks' = [tasks EXCEPT ![t] = IdleTask]
    /\ UNCHANGED <<requests_made, sent, parseVars, uniVars, run>>

AVInit ==
    /\ requests_made = 0
    /\ tasks = [t \in Tasks |-> IdleTask]
    /\ sent = 0
    /\ payload = NoPayload
    /\ order = <<>>
    /\ parsed = NotParsed
    /\ UniIdle
    /\ run = NoRun

AVNext ==
    \E t \in Tasks :
        \/ \E op \in AVOps : Call(t, op)
        \/ Send(t)
        \/ \E outcome \in {"ok", "status", "exception"} : Respond(t, outcome)
        \/ NextIteration(t)
        \/ Return(t)

AVSpec == AVInit /\ [][AVNext]_vars

(***************************************************************************)
(* _parse_news_sentiment applied to the payloads of the model              *)
(***************************************************************************)
ParseInit ==
    /\ requests_made = 0
    /\ tasks = [t \in Tasks |-> IdleTask]
    /\ sent = 0
    /\ payload \in Payloads
    /\ order \in ThemeOrders
    /\ parsed = NotParsed
    /\ UniIdle
    /\ run = NoRun

Parse ==
    /\ parsed = NotParsed
    /\ parsed' = parse_news_sentiment(payload, order)
    /\ UNCHANGED <<requests_made, avVars, payload, order, uniVars, run>>

ParseSpec == ParseInit /\ [][Parse]_vars


(***************************************************************************)
(* Whether the provider answered a collector call with usable data: a 200  *)
(* response holding every field the collector reads.  A call that got no   *)
(* such answer (error status, rate limit, transport failure, missing       *)
(* fields, or no request because the budget is exhausted) has failed.      *)
(***************************************************************************)
UsableClose(prev) == prev.some /\ prev.has_c /\ prev.has_o /\ prev.has_v /\ prev.o # 0
UsableCloses(prev_closes) == \E k \in 1..Len(prev_closes) : UsableClose(prev_closes[k])
UsableFutures(trades, prev_closes) ==
    \E k \in 1..Len(trades) :
        /\ trades[k].some /\ trades[k].p # 0
        /\ prev_closes[k].some /\ prev_closes[k].has_c /\ prev_closes[k].c # 0
UsableHistory(history) ==
    \E k \in 1..Len(history) :
        /\ Len(history[k]) >= 2
        /\ \A j \in {1, Len(history[k])} : history[k][j].has_c /\ history[k][j].has_t
UsableOutcome(o, outcome) == outcome.kind = "ok" /\ outcome.body \in UsableBodies(o)
Admitted(o, rm, outcome) == ~BudgetExhausted(rm) /\ UsableOutcome(o, outcome)
UsableObs(obs) == \E k \in 1..Len(obs) : obs[k].some
UsableCalendar(in) ==
    \/ in.releases.kind = "ok" /\ in.releases.names # <<>>
    \/ in.releases.kind \in {"ok", "status", "no_key"} /\ UsableObs(in.recent)

(***************************************************************************)
(* UnifiedDataCollector: the operations, one step per awaited collector    *)
(* call (per loop iteration for the two quote collectors).  upc names the  *)
(* collector call the operation is waiting in; calls records the collector *)
(* calls that returned or raised, in order.                                *)
(***************************************************************************)
UnifiedOps == {"market_data", "sector", "earnings", "news", "calendar"}

\* the first collector call of an operation
FirstAwait(o) ==
    CASE o = "market_data" -> "polygon.get_previous_close_data"
      [] o = "sector"      -> "polygon.get_sector_etf_data"
      [] o = "earnings"    -> "alphavantage.get_earnings_calendar"
      [] o = "news"        -> "alphavantage.get_market_news_with_sentiment"
      [] o = "calendar"    -> "fred.get_economic_calendar_today"

\* the local variables of an operation when it starts
Locals(o) ==
    IF o = "market_data"
    THEN [market_data |-> EmptyMarketData, polygon_close |-> EmptyDict,
          av_market_data |-> EmptyDict, live |-> FALSE]
    ELSE IF o = "calendar" THEN [fred_calendar |-> <<>>, live |-> FALSE]
    ELSE [live |-> FALSE]

\* a finished collector call: its name, whether it raised into the operation, and
\* whether the provider answered any of its requests with usable data (live)
Called(name, raised, live) == [name |-> name, raised |-> raised, live |-> live]

\* the operation moves on to await collector call p; the awaited call is logged
Await(p, l, raised, live) ==
    /\ upc' = p
    /\ idx' = 1
    /\ loc' = [l EXCEPT !.live = FALSE]
    /\ calls' = Append(calls, Called(upc, raised, live))
    /\ result' = result

\* the operation returns value
Finish(value, l, raised, live) ==
    /\ upc' = "done"
    /\ idx' = 0
    /\ loc' = [l EXCEPT !.live = FALSE]
    /\ calls' = Append(calls, Called(upc, raised, live))
    /\ result' = value

\* the start of an operation of a collector that is used on its own
UCall(o) ==
    /\ run = NoRun
    /\ uop = "none"
    /\ uop' = o
    /\ upc' = FirstAwait(o)
    /\ idx' = 1
    /\ loc' = Locals(o)
    /\ calls' = <<>>
    /\ result' = <<>>
    /\ UNCHANGED <<requests_made, avVars, parseVars, env, run>>

\* the caller takes the result
UReturn ==
    /\ run = NoRun
    /\ upc = "done"
    /\ uop' = "none"
    /\ upc' = "idle"
    /\ idx' = 0
    /\ loc' = <<>>
    /\ calls' = <<>>
    /\ result' = <<>>
    /\ UNCHANGED <<requests_made, avVars, parseVars, env, run>>

\* get_enhanced_market_data: one iteration of polygon.get_previous_close_data
PolygonCloseStep(resps) ==
    /\ upc = "polygon.get_previous_close_data"
    /\ LET entry  == priority_symbols[idx]
           prev   == get_previous_close(resps, 1)
           r      == CloseIteration(loc.polygon_close, entry, prev)
           failed == prev.some /\ CloseQuote(entry.symbol, prev).exc
           next   == NextIndex(idx, failed)
           live   == loc.live \/ UsableClose(prev)
       IN IF r.exc
          THEN Finish(loc.market_data, loc, TRUE, live)      \* except Exception
          ELSE IF next > Len(priority_symbols)
          THEN Await("alphavantage.get_market_data",
                     [loc EXCEPT !.polygon_close = r.val,
                                 !.market_data = WithPolygonClose(@, r.val)],
                     FALSE, live)
          ELSE /\ idx' = next
               /\ loc' = [loc EXCEPT !.polygon_close = r.val, !.live = live]
               /\ UNCHANGED <<upc, calls, result>>
    /\ UNCHANGED <<requests_made, avVars, parseVars, env, uop, run>>

\* get_enhanced_market_data: one iteration of alphavantage.get_market_data
AVQuoteStep(outcome) ==
    /\ upc = "alphavantage.get_market_data"
    /\ LET acc == IF outcome.kind = "ok"
                  THEN AfterOk("quotes", loc.av_market_data, idx, outcome.body)
                  ELSE AfterFailure("quotes", loc.av_market_data, outcome.kind)
           live == loc.live \/ UsableOutcome("quotes", outcome)
           Returns(av, lv) ==
               Await("polygon.get_overnight_futures",
                     [loc EXCEPT !.av_market_data = av,
                                 !.market_data = WithAlphaVantage(@, av)],
                     FALSE, lv)
       IN IF BudgetExhausted(requests_made)
          THEN /\ Returns(loc.av_market_data, loc.live)      \* break
               /\ UNCHANGED requests_made
          ELSE /\ requests_made' = requests_made + 1
               /\ IF idx = Len(QuoteSymbols)
                  THEN Returns(acc, live)
                  ELSE /\ idx' = idx + 1
                       /\ loc' = [loc EXCEPT !.av_market_data = acc, !.live = live]
                       /\ UNCHANGED <<upc, calls, result>>
    /\ UNCHANGED <<avVars, parseVars, env, uop, run>>

\* get_enhanced_market_data: polygon.get_overnight_futures
FuturesStep(trades, prev_closes) ==
    /\ upc = "polygon.get_overnight_futures"
    /\ LET r == get_overnight_futures(trades, prev_closes)
       IN IF r.exc
          THEN Finish(loc.market_data, loc, TRUE, UsableFutures(trades, prev_closes))
          ELSE Await("polygon.get_international_markets",
                     [loc EXCEPT !.market_data = WithFutures(@, r.val)], FALSE,
                     UsableFutures(trades, prev_closes))
    /\ UNCHANGED <<requests_made, avVars, parseVars, env, uop, run>>

\* get_enhanced_market_data: polygon.get_international_markets, then return
InternationalStep(prev_closes) ==
    /\ upc = "polygon.get_international_markets"
    /\ LET r == get_international_markets(prev_closes)
       IN IF r.exc
          THEN Finish(loc.market_data, loc, TRUE, UsableCloses(prev_closes))
          ELSE LET market_data == WithInternational(loc.market_data, r.val)
               IN Finish(market_data, [loc EXCEPT !.market_data = market_data], FALSE,
                         UsableCloses(prev_closes))
    /\ UNCHANGED <<requests_made, avVars, parseVars, env, uop, run>>

\* get_sector_rotation_data
SectorStep(history) ==
    /\ upc = "polygon.get_sector_etf_data"
    /\ LET r == get_sector_etf_data(history)
       IN IF r.exc
          THEN Finish(NoSectorRotation, loc, TRUE, UsableHistory(history))
          ELSE Finish(SectorRotationOf(r.val), loc, FALSE, UsableHistory(history))
    /\ UNCHANGED <<requests_made, avVars, parseVars, env, uop, run>>

\* get_earnings_calendar
EarningsStep(outcome) ==
    /\ upc = "alphavantage.get_earnings_calendar"
    /\ LET f == av_fetch("earnings", requests_made, outcome)
       IN /\ requests_made' = f.rm
          /\ IF f.ret.exc
             THEN Finish(<<ErrorEntry("No real earnings calendar data available")>>, loc, TRUE,
                         Admitted("earnings", requests_made, outcome))
             ELSE Finish(FormattedEarnings(f.ret.val), loc, FALSE,
                         Admitted("earnings", requests_made, outcome))
    /\ UNCHANGED <<avVars, parseVars, env, uop, run>>

\* get_enhanced_news_and_sentiment
NewsStep(outcome) ==
    /\ upc = "alphavantage.get_market_news_with_sentiment"
    /\ LET f == av_fetch("news", requests_made, outcome)
       IN /\ requests_made' = f.rm
          /\ IF f.ret.exc
             THEN Finish(ErrorNews("No real news data available"), loc, TRUE,
                         Admitted("news", requests_made, outcome))
             ELSE Finish(EnhancedNews(f.ret.val), loc, FALSE,
                         Admitted("news", requests_made, outcome))
    /\ UNCHANGED <<avVars, parseVars, env, uop, run>>

\* get_comprehensive_economic_calendar: fred.get_economic_calendar_today
FredCalendarStep(in) ==
    /\ upc = "fred.get_economic_calendar_today"
    /\ LET r == get_economic_calendar_today(in.releases, in.recent)
       IN IF r.exc
          THEN Finish(get_fallback_economic_calendar, loc, TRUE, UsableCalendar(in))
          ELSE IF CalendarSufficient(r.val)
          THEN Finish(r.val, [loc EXCEPT !.fred_calendar = r.val], FALSE, UsableCalendar(in))
          ELSE Await("fred.get_key_economic_indicators",
                     [loc EXCEPT !.fred_calendar = r.val], FALSE, UsableCalendar(in))
    /\ UNCHANGED <<requests_made, avVars, parseVars, env, uop, run>>

\* get_comprehensive_economic_calendar: fred.get_key_economic_indicators
FredIndicatorsStep(obs) ==
    /\ upc = "fred.get_key_economic_indicators"
    /\ LET r == get_key_economic_indicators(obs)
       IN IF r.exc
          THEN Finish(get_fallback_economic_calendar, loc, TRUE, UsableObs(obs))
          ELSE Finish(CalendarFromIndicators(r.val), loc, FALSE, UsableObs(obs))
    /\ UNCHANGED <<requests_made, avVars, parseVars, env, uop, run>>

\* a step of the operation in progress, the providers answering as env allows
UnifiedStep ==
    \/ \E resps \in DayResponsesOf(env.polygon) : PolygonCloseStep(resps)
    \/ \E outcome \in OutcomesOf(env.alphavantage, "quotes") : AVQuoteStep(outcome)
    \/ \E trades \in TradesOf(env.polygon) :
         \E prev_closes \in PrevClosesOf(env.polygon, Len(futures_symbols)) :
            FuturesStep(trades, prev_closes)
    \/ \E prev_closes \in PrevClosesOf(env.polygon, Len(intl_etfs)) :
         InternationalStep(prev_closes)
    \/ \E history \in HistoriesOf(env.polygon) : SectorStep(history)
    \/ \E outcome \in OutcomesOf(env.alphavantage, "earnings") : EarningsStep(outcome)
    \/ \E outcome \in OutcomesOf(env.alphavantage, "news") : NewsStep(outcome)
    \/ \E in \in CalendarInputsOf(env.fred) : FredCalendarStep(in)
    \/ \E obs \in IndicatorObsOf(env.fred) : FredIndicatorsStep(obs)

UnifiedInit ==
    /\ requests_made = 0
    /\ tasks = [t \in Tasks |-> IdleTask]
    /\ sent = 0
    /\ payload = NoPayload
    /\ order = <<>>
    /\ parsed = NotParsed
    /\ UniIdle
    /\ run = NoRun

UnifiedNext ==
    \/ \E o \in UnifiedOps : UCall(o)
    \/ UnifiedStep
    \/ UReturn

UnifiedSpec == UnifiedInit /\ [][UnifiedNext]_vars

(***************************************************************************)
(* EnhancedPremarketGenerator: the synthesis functions.  An unguarded      *)
(* division by an empty list's length, index into an empty list or         *)
(* attribute of None raises; the functions return Raised or Value(...).    *)
(***************************************************************************)
\* sum(item.impact_score for item in news_items), in tenths
RECURSIVE TotalImpact(_, _)
TotalImpact(news_items, k) ==
    IF k > Len(news_items) THEN 0
    ELSE news_items[k].impact_score + TotalImpact(news_items, k + 1)

\* n / d rounded to the nearest integer, halves to the even neighbour (n >= 0, d > 0)
RoundDivTruncating(n, d) == n \div d
RoundDiv(n, d) ==
    LET q == n \div d
        r == n % d
    IN IF 2 * r > d \/ (2 * r = d /\ q % 2 = 1) THEN q + 1 ELSE q

\* avg_impact = total_impact / len(news_items) if news_items else 0, round(.., 1)
AverageImpactUnguarded(news_items) ==
    IF Len(news_items) = 0 THEN Raised
    ELSE Value(RoundDiv(TotalImpact(news_items, 1), Len(news_items)))
AverageImpact(news_items) ==
    IF news_items # <<>>
    THEN Value(RoundDiv(TotalImpact(news_items, 1), Len(news_items)))
    ELSE Value(0)

\* len([item for item in news_items if item.sentiment == s])
StoriesAfterFirst(news_items, s) ==
    IF news_items = <<>> THEN 0
    ELSE Len(SelectSeq(Tail(news_items), LAMBDA item : item.sentiment = s))
Stories(news_items, s) == Len(SelectSeq(news_items, LAMBDA item : item.sentiment = s))

\* the overall sentiment from the counts of positive and negative stories
OverallSentimentTiesPositive(positive, negative) ==
    IF positive >= negative THEN "positive" ELSE "negative"
OverallSentiment(positive, negative) ==
    IF positive > negative THEN "positive"
    ELSE IF negative > positive THEN "negative"
    ELSE "neutral"

\* _enhanced_sentiment_analysis
enhanced_sentiment_analysis(news_items, themes) ==
    LET avg_impact == AverageImpact(news_items)
        positive   == Stories(news_items, "positive")
        negative   == Stories(news_items, "negative")
    IN IF avg_impact.exc THEN Raised
       ELSE Value([overall_sentiment |-> OverallSentiment(positive, negative),
                   average_impact_score |-> avg_impact.val,
                   positive_stories |-> positive,
                   negative_stories |-> negative,
                   neutral_stories |-> Stories(news_items, "neutral"),
                   key_themes |-> themes,
                   total_stories_analyzed |-> Len(news_items)])

\* sum of change_percent over the quotes under keys
RECURSIVE SumChanges(_, _)
SumChanges(d, keys) ==
    IF keys = {} THEN 0
    ELSE LET n == CHOOSE x \in keys : TRUE
         IN d[n].change_percent + SumChanges(d, keys \ {n})

\* the market sentiment from the futures: the average change against +-0.3 percent
\* (the sum against 0.3 percent times the number of futures); neutral without futures
MarketSentiment(futures_data) ==
    LET n   == Cardinality(DOMAIN futures_data)
        sum == SumChanges(futures_data, DOMAIN futures_data)
    IN IF n = 0 THEN "neutral"
       ELSE IF sum > 30 * n THEN "bullish"
       ELSE IF sum < (-30) * n THEN "bearish"
       ELSE "neutral"

\* _format_closing_summary
format_closing_summary(closing_data) ==
    IF "S&P 500" \in DOMAIN closing_data
    THEN [text |-> "S&P 500 closed",
          direction |-> IF closing_data["S&P 500"].change > 0 THEN "higher" ELSE "lower",
          price |-> closing_data["S&P 500"].current_price,
          change_percent |-> closing_data["S&P 500"].change_percent]
    ELSE [text |-> "mixed session with sector rotation"]

\* leader_sectors[0] if leader_sectors else 'Technology'
LeadingSector(leaders) ==
    LET leader_sectors == [k \in 1..Len(Take(leaders, 2)) |-> leaders[k].sector]
    IN IF leader_sectors # <<>> THEN leader_sectors[1] ELSE "Technology"

\* closing_data.get('VIX').current_price if closing_data.get('VIX') else 20
VixLevel(closing_data) ==
    IF "VIX" \in DOMAIN closing_data THEN closing_data["VIX"].current_price ELSE 2000

\* _generate_premarket_executive_summary; an insight is kept as the values its
\* text is formatted from
generate_premarket_executive_summary(closing_data, futures_data, sentiment_analysis, sector_rotation) ==
    LET market_sentiment == MarketSentiment(futures_data)
        leading == LeadingSector(sector_rotation.leaders)
        vix == VixLevel(closing_data)
    IN Value([market_sentiment |-> market_sentiment,
              key_insights |->
                  <<[about |-> "Overnight futures", said |-> market_sentiment],
                    [about |-> "Previous session", said |-> format_closing_summary(closing_data)],
                    [about |-> "Sector rotation", said |-> leading],
                    [about |-> "News sentiment", said |-> sentiment_analysis.overall_sentiment,
                     stories |-> sentiment_analysis.total_stories_analyzed],
                    [about |-> "VIX closed at", said |-> vix,
                     indicating |-> IF vix < 2000 THEN "low volatility"
                                    ELSE "normal conditions"]>>,
              recommended_actions |->
                  <<[about |-> "Monitor sector", said |-> leading],
                    [about |-> "Watch futures reaction to overnight developments"],
                    [about |-> "Prepare for volatility around upcoming earnings releases"],
                    [about |-> "Review sector allocation based on weekly rotation patterns"]>>])

\* e.get('market_cap') == 'Large'
IsLargeCap(e) == "market_cap" \in DOMAIN e /\ e.market_cap = "Large"

\* if not risk_factors: risk_factors = [<defaults>]
OrDefaultsDropped(detected, defaults) == detected
OrDefaults(detected, defaults) == IF detected = <<>> THEN defaults ELSE detected

\* _generate_premarket_risk_assessment
generate_premarket_risk_assessment(sentiment_analysis, sector_rotation, earnings_calendar) ==
    LET high_profile_earnings == SelectSeq(earnings_calendar, IsLargeCap)
        earnings_risk ==
            IF earnings_calendar # <<>> /\ Len(high_profile_earnings) >= 3
            THEN <<"Heavy earnings calendar">> ELSE <<>>
        rotation_strength == sector_rotation.rotation_strength
        rotation_risk ==
            IF rotation_strength = "weak"
            THEN <<"Weak sector rotation suggesting broad market uncertainty">> ELSE <<>>
        news_risk ==
            IF sentiment_analysis.negative_stories > sentiment_analysis.positive_stories
            THEN <<"Negative news sentiment bias">> ELSE <<>>
        risk_factors == earnings_risk \o rotation_risk \o news_risk
        opportunities ==
            IF rotation_strength = "strong"
            THEN <<"Strong sector rotation creating alpha opportunities">> ELSE <<>>
        shown == Take(earnings_calendar, 3)
    IN Value([overall_risk_level |-> "medium",
              primary_risks |->
                  OrDefaults(risk_factors,
                             <<"Standard market volatility", "Geopolitical uncertainties">>),
              opportunity_areas |->
                  OrDefaults(opportunities,
                             <<"Sector rotation opportunities",
                               "Individual stock selection alpha">>),
              earnings_focus |->
                  [k \in 1..Len(shown) |->
                      [symbol |-> IF "symbol" \in DOMAIN shown[k] THEN shown[k].symbol ELSE "N/A",
                       timing |-> IF "timing" \in DOMAIN shown[k] THEN shown[k].timing ELSE "AMC"]]])

(***************************************************************************)
(* ReportData and the two report generators                                *)
(***************************************************************************)
ReportData(executive_summary, market_performance, news_events, sector_analysis, technical_analysis, economic_calendar, risk_assessment, earnings_calendar) ==
    [executive_summary |-> executive_summary, market_performance |-> market_performance,
     news_events |-> news_events, sector_analysis |-> sector_analysis,
     technical_analysis |-> technical_analysis, economic_calendar |-> economic_calendar,
     risk_assessment |-> risk_assessment, earnings_calendar |-> earnings_calendar]

\* no report (yet)
NoReport == [executive_summary |-> "none"]

\* the try block of generate_premarket_report after the five collections
PremarketReport(c) ==
    LET sentiment_analysis == enhanced_sentiment_analysis(c.news.items, c.news.themes)
    IN IF sentiment_analysis.exc THEN Raised
       ELSE LET executive_summary ==
                    generate_premarket_executive_summary(
                        c.market_data.previous_close, c.market_data.overnight_futures,
                        sentiment_analysis.val, c.sector_rotation)
                risk_assessment ==
                    generate_premarket_risk_assessment(
                        sentiment_analysis.val, c.sector_rotation, c.earnings_calendar)
            IN IF executive_summary.exc \/ risk_assessment.exc THEN Raised
               ELSE Value(ReportData(
                        executive_summary.val,
                        [previous_close |-> c.market_data.previous_close,
                         overnight_futures |-> c.market_data.overnight_futures,
                         international |-> c.market_data.international,
                         current_prices |-> c.market_data.current_prices,
                         sector_rotation |-> c.sector_rotation],
                        c.news.items, sentiment_analysis.val, EmptyDict,
                        c.economic_calendar, risk_assessment.val, c.earnings_calendar))

\* NewsAnalyzer.collect_market_news: the sample items
sample_news ==
    <<NewsItem("Federal Reserve Signals Potential Rate Pause", "full", "Federal Reserve",
               "neutral", 85),
      NewsItem("Tech Earnings Beat Expectations", "full", "Corporate Earnings", "positive", 72),
      NewsItem("China Manufacturing PMI Expansion", "full", "Economic Data", "positive", 68)>>

\* round(avg_impact, 2) of analyze_sentiment_impact, in hundredths
AverageImpactHundredths(news_items) ==
    IF news_items # <<>>
    THEN RoundDiv(10 * TotalImpact(news_items, 1), Len(news_items))
    ELSE 0

\* NewsAnalyzer.analyze_sentiment_impact; the average is kept in hundredths
analyze_sentiment_impact(news_items) ==
    LET positive == Stories(news_items, "positive")
        negative == Stories(news_items, "negative")
    IN [overall_sentiment |-> OverallSentiment(positive, negative),
        average_impact_score |-> AverageImpactHundredths(news_items),
        positive_stories |-> positive,
        negative_stories |-> negative,
        neutral_stories |-> Stories(news_items, "neutral"),
        key_themes |-> <<"Federal Reserve Policy", "Corporate Earnings", "Global Growth">>,
        risk_factors |-> <<"Inflation Uncertainty", "Geopolitical Tensions",
                           "Supply Chain Issues">>]

\* ReportGenerator._get_economic_calendar: the sample events
sample_events ==
    <<[time |-> "08:30 ET", event |-> "Initial Jobless Claims", importance |-> "medium",
       forecast |-> "220K", previous |-> "218K"],
      [time |-> "10:00 ET", event |-> "ISM Services PMI", importance |-> "high",
       forecast |-> "52.5", previous |-> "52.6"]>>

\* the symbol tables of MarketDataCollector
yahoo_symbols ==
    [futures |-> <<[symbol |-> "ES=F", name |-> "S&P 500 Futures"],
                   [symbol |-> "NQ=F", name |-> "NASDAQ Futures"],
                   [symbol |-> "RTY=F", name |-> "Russell 2000 Futures"],
                   [symbol |-> "YM=F", name |-> "Dow Futures"]>>,
     international |-> <<[symbol |-> "^N225", name |-> "Nikkei 225"],
                         [symbol |-> "^HSI", name |-> "Hang Seng"],
                         [symbol |-> "^FTSE", name |-> "FTSE 100"],
                         [symbol |-> "^GDAXI", name |-> "DAX"],
                         [symbol |-> "^FCHI", name |-> "CAC 40"]>>,
     currencies |-> <<[symbol |-> "EURUSD=X", name |-> "EUR/USD"],
                      [symbol |-> "GBPUSD=X", name |-> "GBP/USD"],
                      [symbol |-> "USDJPY=X", name |-> "USD/JPY"],
                      [symbol |-> "DX-Y.NYB", name |-> "DXY Index"]>>,
     commodities |-> <<[symbol |-> "GC=F", name |-> "Gold"],
                       [symbol |-> "CL=F", name |-> "Crude Oil"],
                       [symbol |-> "SI=F", name |-> "Silver"],
                       [symbol |-> "HG=F", name |-> "Copper"]>>]

\* what yfinance answers: the closes of a two-day history (none when it fails),
\* the latest VIX close (none for an empty history), or an exception for the VIX
YahooAnswers == {[closes |-> <<10000, 10100>>, vix |-> <<1800>>, vix_raises |-> FALSE],
                 [closes |-> <<10000>>, vix |-> <<2700>>, vix_raises |-> FALSE],
                 [closes |-> <<>>, vix |-> <<>>, vix_raises |-> FALSE],
                 [closes |-> <<>>, vix |-> <<>>, vix_raises |-> TRUE]}

\* a loop of MarketDataCollector over one of its symbol tables
YahooQuotes(table, yf) ==
    IF yf.closes = <<>> THEN EmptyDict
    ELSE LET current_price == yf.closes[Len(yf.closes)]
             prev_close == IF Len(yf.closes) > 1 THEN yf.closes[Len(yf.closes) - 1]
                           ELSE current_price
         IN [n \in {table[k].name : k \in 1..Len(table)} |->
               MarketData((CHOOSE e \in Range(table) : e.name = n).symbol, current_price,
                          current_price - prev_close,
                          RoundPercent(current_price - prev_close, prev_close), 0, "yahoo")]

\* TechnicalAnalyzer.analyze_market_technicals; levels in hundredths
analyze_market_technicals(yf) ==
    LET current_vix == IF yf.vix # <<>> THEN yf.vix[1] ELSE 2000
    IN IF yf.vix_raises
       THEN [vix_level |-> 2000, volatility_regime |-> "medium",      \* except Exception
             market_breadth |-> "neutral", key_levels |-> <<>>,
             momentum_indicators |-> <<>>]
       ELSE [vix_level |-> current_vix,
             volatility_regime |-> IF current_vix > 2500 THEN "high"
                                   ELSE IF current_vix > 1500 THEN "medium" ELSE "low",
             market_breadth |-> "positive",
             key_levels |-> <<"SPY", "QQQ">>,
             momentum_indicators |-> <<"rsi_oversold", "macd_bullish", "trend_direction">>]

\* the average change of the futures against +-0.5 percent
MarketDirection(futures_data) ==
    LET n   == Cardinality(DOMAIN futures_data)
        sum == SumChanges(futures_data, DOMAIN futures_data)
    IN IF n = 0 THEN "neutral"
       ELSE IF sum > 50 * n THEN "bullish"
       ELSE IF sum < (-50) * n THEN "bearish"
       ELSE "neutral"

\* ReportGenerator._generate_executive_summary
generate_executive_summary(futures_data, sentiment_analysis, technical_analysis) ==
    [market_sentiment |-> MarketDirection(futures_data),
     key_insights |->
         <<[about |-> "Overnight futures", said |-> MarketDirection(futures_data)],
           [about |-> "News sentiment", said |-> sentiment_analysis.overall_sentiment,
            impact |-> sentiment_analysis.average_impact_score],
           [about |-> "VIX at", said |-> technical_analysis.vix_level,
            indicating |-> technical_analysis.volatility_regime]>>,
     risk_level |-> "medium",
     recommended_actions |->
         <<[about |-> "Monitor Federal Reserve communications"],
           [about |-> "Watch for any changes in volatility regime"],
           [about |-> "Prepare for potential sector rotation"]>>]

\* ReportGenerator._generate_risk_assessment
generate_risk_assessment(sentiment_analysis, technical_analysis) ==
    [overall_risk_level |-> IF technical_analysis.vix_level > 2500 THEN "high"
                            ELSE IF technical_analysis.vix_level > 1500 THEN "medium"
                            ELSE "low",
     primary_risks |-> sentiment_analysis.risk_factors,
     opportunity_areas |-> <<"Technology sector on earnings strength",
                             "Emerging markets on China growth data",
                             "Commodities on supply/demand dynamics">>]

\* ReportGenerator.generate_daily_report
generate_daily_report(yf) ==
    LET futures_data == YahooQuotes(yahoo_symbols.futures, yf)
        news_items == sample_news
        sentiment_analysis == analyze_sentiment_impact(news_items)
        technical_analysis == analyze_market_technicals(yf)
    IN Value(ReportData(
           generate_executive_summary(futures_data, sentiment_analysis, technical_analysis),
           [futures |-> futures_data,
            international |-> YahooQuotes(yahoo_symbols.international, yf),
            currencies |-> YahooQuotes(yahoo_symbols.currencies, yf),
            commodities |-> YahooQuotes(yahoo_symbols.commodities, yf)],
           news_items, sentiment_analysis, technical_analysis, sample_events,
           generate_risk_assessment(sentiment_analysis, technical_analysis), <<>>))

\* generate_premarket_report: the try block, and on an exception the daily report
generate_premarket_report(c, yf) ==
    LET r == PremarketReport(c)
    IN IF r.exc THEN generate_daily_report(yf) ELSE r

(***************************************************************************)
(* A report run of one EnhancedPremarketGenerator: generate_premarket_     *)
(* report awaits the five operations of its UnifiedDataCollector in turn   *)
(* and assembles the report; the same generator is used for one report     *)
(* after the other, and generate_daily_report may be called on it          *)
(* directly.  run.start is requests_made when the run began.               *)
(***************************************************************************)
\* the generator between two reports: nothing collected
IdleRun == [pc |-> "idle", generator |-> "none", start |-> 0,
            market_data |-> EmptyMarketData, sector_rotation |-> NoSectorRotation,
            earnings_calendar |-> <<>>, news |-> [items |-> <<>>, themes |-> <<>>],
            economic_calendar |-> <<>>, report |-> NoReport]

\* the operation generate_premarket_report awaits after operation o
NextOp(o) ==
    CASE o = "market_data" -> "sector"
      [] o = "sector"      -> "earnings"
      [] o = "earnings"    -> "news"
      [] o = "news"        -> "calendar"

\* the local variable of generate_premarket_report assigned from operation o
Store(r, o, value) ==
    CASE o = "market_data" -> [r EXCEPT !.market_data = value]
      [] o = "sector"      -> [r EXCEPT !.sector_rotation = value]
      [] o = "earnings"    -> [r EXCEPT !.earnings_calendar = value]
      [] o = "news"        -> [r EXCEPT !.news = value]
      [] o = "calendar"    -> [r EXCEPT !.economic_calendar = value]

\* the run starts to await operation o
StartOp(o) ==
    /\ uop' = o
    /\ upc' = FirstAwait(o)
    /\ idx' = 1
    /\ loc' = Locals(o)
    /\ calls' = <<>>
    /\ result' = <<>>

\* generate_premarket_report is called; the providers are in condition e
Invoke(e) ==
    /\ run.pc \in {"idle", "returned"}
    /\ env' = e
    /\ run' = [IdleRun EXCEPT !.pc = "market_data", !.generator = "premarket",
                              !.start = requests_made]
    /\ StartOp("market_data")
    /\ UNCHANGED <<requests_made, avVars, parseVars>>

\* an operation has returned: its value is assigned and the next one is awaited
Collect ==
    /\ run.pc \in UnifiedOps \ {"calendar"}
    /\ uop = run.pc
    /\ upc = "done"
    /\ run' = [Store(run, uop, result) EXCEPT !.pc = NextOp(uop)]
    /\ StartOp(NextOp(uop))
    /\ UNCHANGED <<requests_made, avVars, parseVars, env>>

\* the last operation has returned: synthesis, ReportData, return
Assemble(yf) ==
    /\ run.pc = "calendar"
    /\ uop = "calendar"
    /\ upc = "done"
    /\ LET r == generate_premarket_report(Store(run, uop, result), yf)
       IN run' = [IdleRun EXCEPT !.pc = IF r.exc THEN "raised" ELSE "returned",
                                 !.generator = "premarket",
                                 !.start = run.start,
                                 !.report = IF r.exc THEN NoReport ELSE r.val]
    /\ env' = AnyEnv
    /\ uop' = "none"
    /\ upc' = "idle"
    /\ idx' = 0
    /\ loc' = <<>>
    /\ calls' = <<>>
    /\ result' = <<>>
    /\ UNCHANGED <<requests_made, avVars, parseVars>>

\* generate_daily_report is called directly
DailyReport(yf) ==
    /\ run.pc \in {"idle", "returned"}
    /\ LET r == generate_daily_report(yf)
       IN run' = [IdleRun EXCEPT !.pc = IF r.exc THEN "raised" ELSE "returned",
                                 !.generator = "daily",
                                 !.start = requests_made,
                                 !.report = IF r.exc THEN NoReport ELSE r.val]
    /\ UNCHANGED <<requests_made, avVars, parseVars, uniVars>>

\* a step of a run in progress
RunStep ==
    \/ UnifiedStep
    \/ Collect
    \/ \E yf \in YahooAnswers : Assemble(yf)

RunInit ==
    /\ requests_made = 0
    /\ tasks = [t \in Tasks |-> IdleTask]
    /\ sent = 0
    /\ payload = NoPayload
    /\ order = <<>>
    /\ parsed = NotParsed
    /\ UniIdle
    /\ run = IdleRun

RunNext ==
    \/ \E e \in Scenarios : Invoke(e)
    \/ RunStep
    \/ \E yf \in YahooAnswers : DailyReport(yf)

RunSpec == RunInit /\ [][RunNext]_vars

\* every awaited call completes (the HTTP client bounds the duration of a request)
\* and the event loop resumes the coroutine
RunLiveSpec == RunSpec /\ WF_vars(RunStep)

(***************************************************************************)
(* The synthesis functions on their own: applied to collections drawn from *)
(* what the operations of the UnifiedDataCollector can return, and to an   *)
(* empty news list.                                                        *)
(***************************************************************************)
SynthNews ==
    {[items |-> <<>>, themes |-> <<>>],
     ErrorNews("No real news data available"),
     ErrorNews("rate_limit")}
    \cup {parse_news_sentiment(b, FirstOrder) : b \in UsableBodies("news")}
    \cup {[items |-> <<NewsItem("a", "full", "provider", "negative", 10),
                       NewsItem("b", "full", "provider", "positive", 70),
                       NewsItem("c", "full", "provider", "negative", 75)>>,
           themes |-> default_themes]}

SynthSectors ==
    {NoSectorRotation}
    \cup {SectorRotationOf(get_sector_etf_data(h).val) : h \in HistoriesOf("up")}

SynthEarnings ==
    {<<>>, <<ErrorEntry("No real earnings calendar data available")>>}
    \cup {FormattedEarnings(parse_earnings_csv(b)) : b \in UsableBodies("earnings")}
    \cup {FormattedEarnings(parse_earnings_csv(
              [kind |-> "text", lines |-> 4,
               rows |-> <<CsvRow("AAPL", "2025-07-31"), CsvRow("MSFT", "2025-07-31"),
                          CsvRow("NVDA", "2025-08-01")>>]))}

SynthMarketData ==
    {WithFutures(WithPolygonClose(EmptyMarketData,
                                  CloseLoop(priority_symbols, closes, 1, EmptyDict).val),
                 get_overnight_futures(trades, prevs).val) :
        closes \in PrevClosesOf("any", Len(priority_symbols)),
        trades \in TradesOf("any"),
        prevs \in {AllOf(Len(futures_symbols), FullClose)}}

SynthInit ==
    /\ requests_made = 0
    /\ tasks = [t \in Tasks |-> IdleTask]
    /\ sent = 0
    /\ payload = NoPayload
    /\ order = <<>>
    /\ parsed = NotParsed
    /\ UniIdle
    /\ run \in {[IdleRun EXCEPT !.pc = "synthesis", !.market_data = market_data,
                                !.sector_rotation = sector_rotation,
                                !.earnings_calendar = earnings_calendar, !.news = news] :
                  market_data \in SynthMarketData, sector_rotation \in SynthSectors,
                  earnings_calendar \in SynthEarnings, news \in SynthNews}

\* the three synthesis functions and ReportData, on the collections of run
Synthesize ==
    /\ run.pc = "synthesis"
    /\ LET r == PremarketReport(run)
       IN run' = [run EXCEPT !.pc = IF r.exc THEN "raised" ELSE "synthesized",
                             !.report = IF r.exc THEN NoReport ELSE r.val]
    /\ UNCHANGED <<requests_made, avVars, parseVars, uniVars>>

\* len(positive_sectors) - len(negative_sectors) of
\* EnhancedReportGenerator._enhanced_sentiment_analysis; sector_perf maps a
\* sector to its performance
sector_balance(sector_perf) ==
    Cardinality({s \in DOMAIN sector_perf : sector_perf[s] > 0})
        - Cardinality({s \in DOMAIN sector_perf : sector_perf[s] < 0})

\* market_direction of EnhancedReportGenerator._generate_enhanced_executive_summary:
\* the average change of the futures against +-0.3 percent, and the sector balance
EnhancedMarketDirection(futures_data, balance) ==
    LET n   == Cardinality(DOMAIN futures_data)
        sum == SumChanges(futures_data, DOMAIN futures_data)
    IN IF n > 0 /\ sum > 30 * n /\ balance > 0 THEN "bullish"
       ELSE IF n > 0 /\ sum < (-30) * n /\ balance < 0 THEN "bearish"
       ELSE "neutral"

\* the weekly returns of a sector rotation as a sector performance map
SectorPerformanceOf(rotation) ==
    [s \in DOMAIN rotation.weekly_performance |-> rotation.weekly_performance[s].weekly_return]

\* _generate_enhanced_executive_summary on the futures and sector returns of run
EnhancedSummary ==
    /\ run.pc = "synthesis"
    /\ run' = [run EXCEPT
                 !.pc = "enhanced_summary",
                 !.report = [executive_summary |->
                     [market_sentiment |->
                         EnhancedMarketDirection(
                             run.market_data.overnight_futures,
                             sector_balance(SectorPerformanceOf(run.sector_rotation)))]]]
    /\ UNCHANGED <<requests_made, avVars, parseVars, uniVars>>

SynthNext == Synthesize \/ EnhancedSummary

SynthSpec == SynthInit /\ [][SynthNext]_vars

(***************************************************************************)
(* EnhancedDataCollector.collect_comprehensive_data: seven source calls    *)
(* run concurrently under asyncio.gather(return_exceptions=True) and       *)
(* complete in any order; the join builds the returned map from the list   *)
(* of results.  Here run holds the gather: for each task the answer its    *)
(* provider gave and what the task returned, and the returned map.         *)
(***************************************************************************)
\* the tasks list, in order, with the key of the map each result goes to
gather_tasks ==
    <<[call |-> "tradingview.get_futures_data", key |-> "futures"],
      [call |-> "tradingview.get_international_indices", key |-> "international"],
      [call |-> "tradingview.get_crypto_data", key |-> "crypto"],
      [call |-> "fiscal_ai.get_earnings_calendar", key |-> "earnings_calendar"],
      [call |-> "finviz.get_market_overview", key |-> "market_overview"],
      [call |-> "finviz.get_sector_performance", key |-> "sector_performance"],
      [call |-> "finviz.get_top_movers", key |-> "top_movers"]>>

\* how a request is answered: 200 with a body, another status, or a transport
\* exception; get_top_movers sends two requests
RequestAnswers == {"ok", "status", "exception"}
SourceAnswers(call) ==
    IF call = "finviz.get_top_movers"
    THEN {<<a, b>> : a \in RequestAnswers, b \in {"ok", "status"}}
         \cup {<<"ok", "exception">>}
    ELSE {<<a>> : a \in RequestAnswers}

\* what a call's parser makes of a 200 body
ParsedBody(call) == [from |-> call, items |-> 2]

\* what a source call returns from its except branch
SourceDefault(call) ==
    IF call = "finviz.get_top_movers" THEN [gainers |-> <<>>, losers |-> <<>>]
    ELSE EmptyDict

\* try: <body> except Exception: return <default>
Caught(r, default) == IF r.exc THEN Value(default) ELSE r

\* a source call with one request: the parsed body on 200, else its empty value
SingleRequest(call, answer) ==
    Caught(IF answer[1] = "exception" THEN Raised
           ELSE IF answer[1] = "ok" THEN Value(ParsedBody(call))
           ELSE Value(EmptyDict),
           SourceDefault(call))

\* FinvizCollector.get_top_movers: gainers, then losers; an exception drops both
get_top_movers(answer) ==
    Caught(IF answer[1] = "exception" \/ answer[2] = "exception" THEN Raised
           ELSE Value([gainers |-> IF answer[1] = "ok"
                                   THEN <<ParsedBody("finviz.get_top_movers")>> ELSE <<>>,
                       losers  |-> IF answer[2] = "ok"
                                   THEN <<ParsedBody("finviz.get_top_movers")>> ELSE <<>>]),
           SourceDefault("finviz.get_top_movers"))

\* the source call of a task
SourceCall(call, answer) ==
    IF call = "finviz.get_top_movers" THEN get_top_movers(answer)
    ELSE SingleRequest(call, answer)

\* a task that has not completed
Pending == [pending |-> TRUE]

\* the position in results the join reads for the k-th key of the map
ResultIndexCopied(k) == IF k = 3 THEN 2 ELSE k
ResultIndex(k) == k

\* results[i] if not isinstance(results[i], Exception) else {} (or [])
Gathered(results, k) ==
    IF results[ResultIndex(k)].exc THEN EmptyDict ELSE results[ResultIndex(k)].val

\* the map collect_comprehensive_data returns
ComprehensiveData(results) ==
    [key \in {gather_tasks[k].key : k \in 1..Len(gather_tasks)} |->
        Gathered(results, CHOOSE k \in 1..Len(gather_tasks) : gather_tasks[k].key = key)]

GatherInit ==
    /\ requests_made = 0
    /\ tasks = [t \in Tasks |-> IdleTask]
    /\ sent = 0
    /\ payload = NoPayload
    /\ order = <<>>
    /\ parsed = NotParsed
    /\ UniIdle
    /\ run = [pc |-> "gather",
              answers |-> [k \in 1..Len(gather_tasks) |-> <<>>],
              results |-> [k \in 1..Len(gather_tasks) |-> Pending],
              value |-> EmptyDict]

\* task k completes: its provider answered, the call returned (or raised)
TaskCompletes(k, answer) ==
    /\ run.pc = "gather"
    /\ run.results[k] = Pending
    /\ run' = [run EXCEPT !.answers[k] = answer,
                          !.results[k] = SourceCall(gather_tasks[k].call, answer)]
    /\ UNCHANGED <<requests_made, avVars, parseVars, uniVars>>

\* every task has completed: the await returns and the map is built
Join ==
    /\ run.pc = "gather"
    /\ \A k \in 1..Len(gather_tasks) : run.results[k] # Pending
    /\ run' = [run EXCEPT !.pc = "returned", !.value = ComprehensiveData(run.results)]
    /\ UNCHANGED <<requests_made, avVars, parseVars, uniVars>>

GatherNext ==
    \/ \E k \in 1..Len(gather_tasks) :
           \E answer \in SourceAnswers(gather_tasks[k].call) : TaskCompletes(k, answer)
    \/ Join

GatherSpec == GatherInit /\ [][GatherNext]_vars

(***************************************************************************)
(* get_sector_rotation_data on its own: applied to the daily bars of the   *)
(* sector ETFs, of which the first n were resolved, each with a weekly     *)
(* return drawn from WeeklyCloses.  Here run holds the bars and the        *)
(* returned rotation.                                                      *)
(***************************************************************************)
\* the most sector ETFs resolved
MaxSectors == 6

\* the last close of a week that began at 100.00: returns of -2.50, 0, +2.50
\* and +2.51 percent
WeeklyCloses == {9750, 10000, 10250, 10251}

\* the bars of a week ending at the close c
WeekEnding(c) == <<Bar(TRUE, 10000, TRUE), Bar(TRUE, c, TRUE)>>

\* the bars of each sector ETF when the first n are resolved, ending at closes[k]
HistoryOfSectors(closes) ==
    [k \in 1..Len(sector_etfs) |-> IF k <= Len(closes) THEN WeekEnding(closes[k]) ELSE <<>>]

\* the bars when at most m sector ETFs are resolved
SectorHistories(m) ==
    UNION {{HistoryOfSectors(closes) : closes \in [1..n -> WeeklyCloses]} : n \in 0..m}

\* get_sector_rotation_data given the bars returned for each sector ETF
get_sector_rotation_data(history) ==
    LET sector_data == get_sector_etf_data(history)
    IN IF sector_data.exc THEN NoSectorRotation ELSE SectorRotationOf(sector_data.val)

SectorRotationInit ==
    /\ requests_made = 0
    /\ tasks = [t \in Tasks |-> IdleTask]
    /\ sent = 0
    /\ payload = NoPayload
    /\ order = <<>>
    /\ parsed = NotParsed
    /\ UniIdle
    /\ run \in {[pc |-> "sector_etfs", history |-> h, rotation |-> NoSectorRotation] :
                   h \in SectorHistories(MaxSectors)}

ResolveSectorRotation ==
    /\ run.pc = "sector_etfs"
    /\ run' = [run EXCEPT !.pc = "rotation",
                          !.rotation = get_sector_rotation_data(run.history)]
    /\ UNCHANGED <<requests_made, avVars, parseVars, uniVars>>

\* _calculate_rotation_strength applied to the sector data of the bars
ClassifyRotationStrength ==
    /\ run.pc = "sector_etfs"
    /\ run' = [run EXCEPT !.pc = "strength",
                          !.rotation.rotation_strength =
                              calculate_rotation_strength(get_sector_etf_data(run.history).val)]
    /\ UNCHANGED <<requests_made, avVars, parseVars, uniVars>>

SectorRotationNext == ResolveSectorRotation \/ ClassifyRotationStrength

SectorRotationSpec == SectorRotationInit /\ [][SectorRotationNext]_vars

(***************************************************************************)
(* The two sentiment aggregations on their own: applied to the news lists  *)
(* the collectors produce, of up to MaxNews items, to a list holding the   *)
(* ERROR marker item, and to the empty list.  Here run holds the list and  *)
(* the returned analysis.                                                  *)
(***************************************************************************)
\* the longest news list
MaxNews == 5

\* items as _parse_news_sentiment builds them: impact scores 10.0, 7.5, 1.0, 5.0
StoryKinds ==
    {NewsItem("a", "full", "provider", "positive", 100),
     NewsItem("b", "full", "provider", "positive", 75),
     NewsItem("c", "full", "provider", "negative", 10),
     NewsItem("d", "full", "provider", "neutral", 50)}

\* the news lists of at most m items
NewsLists(m) ==
    UNION {[1..n -> StoryKinds] : n \in 0..m}
    \cup {ErrorNews("No real news data available").items}

NoAnalysis == [overall_sentiment |-> "none"]

SentimentInit ==
    /\ requests_made = 0
    /\ tasks = [t \in Tasks |-> IdleTask]
    /\ sent = 0
    /\ payload = NoPayload
    /\ order = <<>>
    /\ parsed = NotParsed
    /\ UniIdle
    /\ run \in {[pc |-> "news", news_items |-> l, analysis |-> NoAnalysis] : l \in NewsLists(MaxNews)}

\* EnhancedPremarketGenerator._enhanced_sentiment_analysis on the list
EnhancedSentiment ==
    /\ run.pc = "news"
    /\ LET r == enhanced_sentiment_analysis(run.news_items, default_themes)
       IN run' = [run EXCEPT !.pc = IF r.exc THEN "raised" ELSE "enhanced",
                             !.analysis = IF r.exc THEN NoAnalysis ELSE r.val]
    /\ UNCHANGED <<requests_made, avVars, parseVars, uniVars>>

\* NewsAnalyzer.analyze_sentiment_impact on the list
SentimentImpact ==
    /\ run.pc = "news"
    /\ run' = [run EXCEPT !.pc = "impact", !.analysis = analyze_sentiment_impact(run.news_items)]
    /\ UNCHANGED <<requests_made, avVars, parseVars, uniVars>>

SentimentNext == EnhancedSentiment \/ SentimentImpact

SentimentSpec == SentimentInit /\ [][SentimentNext]_vars

(***************************************************************************)
(* EnhancedReportGenerator: the sentiment dict and the risk assessment.    *)
(* A Python list is an object and a dict entry holds a reference to it:    *)
(* two entries holding the same reference see each other's appends.  heap  *)
(* maps a reference to the items of its list; the dicts hold references.   *)
(* Percentages are kept in hundredths.                                     *)
(***************************************************************************)
MaxRows == 3

\* the sector names of the rows of the Finviz groups table
finviz_sectors == {"Technology", "Energy", "Utilities"}

\* float(performance.replace('%', '')) of a row: -2.01, -2.00, 1.00
Performances == {-201, -200, 100}

\* a dict of _parse_sector_performance: rows in insertion order, keys distinct
SectorPerfs(m) ==
    {p \in SeqsUpTo([sector : finviz_sectors, perf : Performances], m) :
        \A i, j \in 1..Len(p) : p[i].sector = p[j].sector => i = j}

\* get_top_movers: the movers lists, both empty when the pages were not served
TopMovers ==
    {[gainers |-> g, losers |-> l] :
        g \in {<<>>, <<"NVDA (NVIDIA Corp): 4.10%">>},
        l \in {<<>>, <<"INTC (Intel Corp): -3.20%">>}}

\* market_overview: the VIX entry, when the page had one (25.00 and 25.01)
Overviews == {[has_vix |-> FALSE, vix |-> 0], [has_vix |-> TRUE, vix |-> 2500],
              [has_vix |-> TRUE, vix |-> 2501]}

\* collect_comprehensive_data: the dict with its keys, or {} after an exception
EnhancedData(m) ==
    {[has_keys |-> TRUE, sector_performance |-> p, top_movers |-> t, market_overview |-> o] :
        p \in SectorPerfs(m), t \in TopMovers, o \in Overviews}
    \cup {[has_keys |-> FALSE, sector_performance |-> <<>>,
           top_movers |-> [gainers |-> <<>>, losers |-> <<>>],
           market_overview |-> [has_vix |-> FALSE, vix |-> 0]]}

\* ', '.join(names) for the one or two names of weak_sectors[:2]
JoinNames(names) ==
    IF Len(names) = 1 THEN names[1] ELSE names[1] \o ", " \o names[2]

\* f"Sector weakness in {', '.join(weak_sectors[:2])}"
SectorWeaknessFlag(weak_sectors) == "Sector weakness in " \o JoinNames(Take(weak_sectors, 2))

\* [s for s, p in sector_perf.items() if p < -2.0]
IsWeak(row) == row.perf < -200
WeakSectors(sector_perf) ==
    LET weak == SelectSeq(sector_perf, IsWeak)
    IN [k \in 1..Len(weak) |-> weak[k].sector]

\* max(sector_perf.items(), key=lambda x: x[1]): the first row of the largest value
BestSector(sector_perf) ==
    LET k == CHOOSE i \in 1..Len(sector_perf) :
                 /\ \A j \in 1..Len(sector_perf) : sector_perf[j].perf <= sector_perf[i].perf
                 /\ \A j \in 1..(i - 1) : sector_perf[j].perf < sector_perf[i].perf
    IN sector_perf[k].sector

\* _enhanced_technical_analysis: vix_level and sector_rotation.best_performing
enhanced_technical_analysis(enhanced_data) ==
    [vix_level |-> IF enhanced_data.has_keys /\ enhanced_data.market_overview.has_vix
                   THEN enhanced_data.market_overview.vix ELSE 2000,
     has_best |-> enhanced_data.has_keys /\ enhanced_data.sector_performance # <<>>,
     best_sector |-> IF enhanced_data.has_keys /\ enhanced_data.sector_performance # <<>>
                     THEN BestSector(enhanced_data.sector_performance) ELSE "none"]

\* list.append(x) on the list object behind reference ref
ListAppend(heap, ref, cond, x) == IF cond THEN [heap EXCEPT ![ref] = Append(@, x)] ELSE heap

\* the items behind the references of a dict, for the entries names
Deref(heap, dict, names) == [n \in names |-> heap[dict[n]]]

NoDict == [made |-> FALSE]

EnhancedInit ==
    /\ requests_made = 0
    /\ tasks = [t \in Tasks |-> IdleTask]
    /\ sent = 0
    /\ payload = NoPayload
    /\ order = <<>>
    /\ parsed = NotParsed
    /\ UniIdle
    /\ run \in {[pc |-> "collected", news_items |-> n, enhanced_data |-> e,
                 heap |-> [r \in {"key_themes", "risk_factors", "opportunity_areas"} |-> <<>>],
                 sentiment_analysis |-> NoDict, risk_assessment |-> NoDict,
                 report |-> NoDict] :
                   n \in {<<>>, sample_news}, e \in EnhancedData(MaxRows)}

\* EnhancedReportGenerator._enhanced_sentiment_analysis: the lists of the dict
\* analyze_sentiment_impact returns are new objects; enhanced_themes is
\* sentiment_analysis.get("key_themes", []), the same object as key_themes
EnhancedSentimentAnalysis ==
    /\ run.pc = "collected"
    /\ LET base == analyze_sentiment_impact(run.news_items)
           data == run.enhanced_data
           heap0 == [run.heap EXCEPT !["key_themes"] = base.key_themes,
                                     !["risk_factors"] = base.risk_factors]
           enhanced_themes == "key_themes"
           heap1 == ListAppend(heap0, enhanced_themes,
                               data.has_keys /\ data.top_movers.gainers # <<>>,
                               "Strong Individual Stock Performance")
           heap2 == ListAppend(heap1, enhanced_themes,
                               data.has_keys /\ data.top_movers.losers # <<>>,
                               "Selective Weakness in Equities")
       IN run' = [run EXCEPT
                    !.pc = "sentiment",
                    !.heap = heap2,
                    !.sentiment_analysis =
                        [made |-> TRUE,
                         overall_sentiment |-> base.overall_sentiment,
                         positive_stories |-> base.positive_stories,
                         negative_stories |-> base.negative_stories,
                         key_themes |-> "key_themes",
                         risk_factors |-> "risk_factors",
                         enhanced_themes |-> enhanced_themes]]
    /\ UNCHANGED <<requests_made, avVars, parseVars, uniVars>>

\* EnhancedReportGenerator._generate_enhanced_risk_assessment: primary_risks of
\* the base assessment is sentiment_analysis.get('risk_factors', []), the same
\* object; opportunity_areas of the base assessment is a new list
EnhancedRiskAssessment ==
    /\ run.pc = "sentiment"
    /\ LET data == run.enhanced_data
           technical_analysis == enhanced_technical_analysis(data)
           base == generate_risk_assessment(
                       [risk_factors |-> run.sentiment_analysis.risk_factors],
                       technical_analysis)
           heap0 == [run.heap EXCEPT !["opportunity_areas"] = base.opportunity_areas]
           enhanced_risks == base.primary_risks
           weak_sectors == WeakSectors(data.sector_performance)
           heap1 == ListAppend(heap0, enhanced_risks,
                               data.has_keys /\ weak_sectors # <<>>,
                               SectorWeaknessFlag(weak_sectors))
           heap2 == ListAppend(heap1, enhanced_risks, technical_analysis.vix_level > 2500,
                               "Elevated volatility environment (VIX > 25)")
           enhanced_opportunities == "opportunity_areas"
           heap3 == ListAppend(heap2, enhanced_opportunities,
                               data.has_keys /\ data.top_movers.gainers # <<>>,
                               "Momentum opportunities in top gainers")
           heap4 == ListAppend(heap3, enhanced_opportunities, technical_analysis.has_best,
                               technical_analysis.best_sector \o " sector showing relative strength")
       IN run' = [run EXCEPT
                    !.pc = "assessed",
                    !.heap = heap4,
                    !.risk_assessment =
                        [made |-> TRUE,
                         overall_risk_level |-> base.overall_risk_level,
                         primary_risks |-> enhanced_risks,
                         opportunity_areas |-> enhanced_opportunities,
                         data_quality |-> "premium"]]
    /\ UNCHANGED <<requests_made, avVars, parseVars, uniVars>>

\* ReportData(..., sector_analysis=sentiment_analysis, ...,
\* risk_assessment=risk_assessment) of generate_enhanced_daily_report
CompileEnhancedReport ==
    /\ run.pc = "assessed"
    /\ run' = [run EXCEPT
                 !.pc = "compiled",
                 !.report = [made |-> TRUE,
                             sector_analysis |-> run.sentiment_analysis,
                             risk_assessment |-> run.risk_assessment]]
    /\ UNCHANGED <<requests_made, avVars, parseVars, uniVars>>

EnhancedNext == EnhancedSentimentAnalysis \/ EnhancedRiskAssessment \/ CompileEnhancedReport

EnhancedSpec == EnhancedInit /\ [][EnhancedNext]_vars

(***************************************************************************)
(* The HTML-scraping parsers: FinvizNewsCollector._parse_finviz_news,      *)
(* ForexFactoryCollector._parse_economic_calendar and FinvizCollector's    *)
(* _parse_sector_performance and _parse_market_overview.  A page is what   *)
(* BeautifulSoup finds in it: the table, when there is one, and its rows.  *)
(* Impact scores are kept in tenths, times in minutes of the day.          *)
(***************************************************************************)
\* list.sort(key=..., reverse=True) and list.sort(key=...): stable
StableSortDescending(items, keys) ==
    LET n == Len(items)
        rank(i) == 1 + Cardinality({j \in 1..n : keys[j] > keys[i]
                                                  \/ (keys[j] = keys[i] /\ j < i)})
    IN [r \in 1..n |-> items[CHOOSE i \in 1..n : rank(i) = r]]
StableSortAscending(items, keys) ==
    LET n == Len(items)
        rank(i) == 1 + Cardinality({j \in 1..n : keys[j] < keys[i]
                                                  \/ (keys[j] = keys[i] /\ j < i)})
    IN [r \in 1..n |-> items[CHOOSE i \in 1..n : rank(i) = r]]

\* FinvizNewsCollector._evaluate_impact_score on what the headline mentions
evaluate_impact_score(h) ==
    Min2(50 + (IF h.high THEN 20 ELSE 0) + (IF h.medium THEN 10 ELSE 0)
            + (IF h.ticker THEN 10 ELSE 0) + (IF h.percent THEN 15 ELSE 0)
            + (IF h.urgent THEN 10 ELSE 0) + (IF h.data THEN 5 ELSE 0),
         100)

\* FinvizNewsCollector._get_fallback_news
get_fallback_news ==
    <<NewsItem("Federal Reserve Officials Signal Cautious Approach to Future Rate Decisions",
               "full", "Federal Reserve Communications", "neutral", 85),
      NewsItem("Technology Sector Shows Resilience Amid Market Volatility",
               "full", "Market Analysis", "positive", 72),
      NewsItem("Oil Prices React to Global Supply Chain Developments",
               "full", "Energy Markets", "neutral", 68)>>

\* the rows of the loop of _parse_finviz_news, from row k on, until max_articles
RECURSIVE FinvizRows(_, _, _, _)
FinvizRows(rows, k, max_articles, news_items) ==
    IF k > Len(rows) THEN news_items
    ELSE LET row == rows[k]
             impact_score == evaluate_impact_score(row.headline)
             kept == IF row.cells >= 2 /\ row.has_link /\ impact_score >= 60
                     THEN Append(news_items,
                                 NewsItem(row.headline.text, "from headline", "Finviz News",
                                          row.headline.sentiment, impact_score))
                     ELSE news_items
         IN IF row.cells >= 2 /\ row.has_link /\ Len(kept) >= max_articles THEN kept
            ELSE FinvizRows(rows, k + 1, max_articles, kept)

\* FinvizNewsCollector._parse_finviz_news
parse_finviz_news(page, max_articles) ==
    IF page.unparsable \/ ~page.has_table THEN get_fallback_news
    ELSE LET news_items == FinvizRows(page.rows, 1, max_articles, <<>>)
         IN Take(StableSortDescending(news_items,
                                      [k \in 1..Len(news_items) |-> news_items[k].impact_score]),
                 max_articles)

\* ForexFactoryCollector._get_fallback_calendar
get_fallback_calendar ==
    <<[time |-> 510, event |-> "Initial Jobless Claims", importance |-> "medium",
       currency |-> "USD", source |-> "Fallback"],
      [time |-> 600, event |-> "ISM Services PMI", importance |-> "high",
       currency |-> "USD", source |-> "Fallback"],
      [time |-> 840, event |-> "Fed Chair Powell Speech", importance |-> "high",
       currency |-> "USD", source |-> "Fallback"]>>

\* _determine_impact_level on the number of screen icons
determine_impact_level(icons) ==
    IF icons >= 3 THEN "high" ELSE IF icons = 2 THEN "medium" ELSE "low"

\* the rows of the loop of _parse_economic_calendar, from row k on; dated says
\* whether current_date is set
RECURSIVE CalendarRows(_, _, _, _)
CalendarRows(rows, k, dated, events) ==
    IF k > Len(rows) THEN events
    ELSE LET row == rows[k]
         IN IF row.kind = "date"
            THEN CalendarRows(rows, k + 1, row.parses, events)
            ELSE IF ~dated \/ row.cells < 4 \/ row.currency # "USD"
                    \/ determine_impact_level(row.icons) \notin {"medium", "high"}
            THEN CalendarRows(rows, k + 1, dated, events)
            ELSE CalendarRows(rows, k + 1, dated,
                              Append(events,
                                     [time |-> row.time, event |-> row.event,
                                      importance |-> determine_impact_level(row.icons),
                                      currency |-> row.currency, source |-> "ForexFactory"]))

\* ForexFactoryCollector._parse_economic_calendar; _time_sort_key puts an
\* unparsable time at (24, 0)
parse_economic_calendar(page) ==
    IF page.unparsable \/ ~page.has_table THEN get_fallback_calendar
    ELSE LET events == CalendarRows(page.rows, 1, FALSE, <<>>)
         IN Take(StableSortAscending(events, [k \in 1..Len(events) |-> events[k].time]), 10)

\* the rows of the loop of _parse_sector_performance, after the header row
RECURSIVE SectorRows(_, _, _)
SectorRows(rows, k, sectors) ==
    IF k > Len(rows) THEN sectors
    ELSE SectorRows(rows, k + 1,
                    IF rows[k].cells >= 2 /\ rows[k].is_number
                    THEN Put(sectors, rows[k].sector, rows[k].perf) ELSE sectors)

\* s[1:]
Tail1(s) == IF s = <<>> THEN <<>> ELSE Tail(s)

\* FinvizCollector._parse_sector_performance
parse_sector_performance(page) ==
    IF page.has_table THEN SectorRows(Tail1(page.rows), 1, EmptyDict) ELSE EmptyDict

\* the rows of the loop of _parse_market_overview, after the header row
RECURSIVE OverviewRows(_, _, _)
OverviewRows(rows, k, overview) ==
    IF k > Len(rows) THEN overview
    ELSE OverviewRows(rows, k + 1,
                      IF rows[k].cells >= 3
                      THEN Put(overview, rows[k].index_name, "price and change")
                      ELSE overview)

\* FinvizCollector._parse_market_overview: the indices table, then the VIX
\* text; a VIX text without a following cell raises inside the try block
parse_market_overview(page) ==
    LET indices == IF page.has_table THEN OverviewRows(Tail1(page.rows), 1, EmptyDict)
                   ELSE EmptyDict
    IN IF page.vix = "cell" THEN Put(indices, "VIX", "value") ELSE indices

\* the pages of the model, of at most m rows
Headlines ==
    {[text |-> "plain", sentiment |-> "neutral", high |-> FALSE, medium |-> FALSE,
      ticker |-> FALSE, percent |-> FALSE, urgent |-> FALSE, data |-> FALSE],
     [text |-> "stock outlook", sentiment |-> "neutral", high |-> FALSE, medium |-> TRUE,
      ticker |-> FALSE, percent |-> FALSE, urgent |-> FALSE, data |-> FALSE],
     [text |-> "fed data", sentiment |-> "negative", high |-> TRUE, medium |-> FALSE,
      ticker |-> FALSE, percent |-> FALSE, urgent |-> FALSE, data |-> TRUE],
     [text |-> "BREAKING: NVDA stock up 12% on earnings", sentiment |-> "positive",
      high |-> TRUE, medium |-> TRUE, ticker |-> TRUE, percent |-> TRUE, urgent |-> TRUE,
      data |-> FALSE]}
NewsRows ==
    {[cells |-> 2, has_link |-> TRUE, headline |-> h] : h \in Headlines}
    \cup {[cells |-> 1, has_link |-> TRUE,
           headline |-> CHOOSE h \in Headlines : h.text = "fed data"]}
    \cup {[cells |-> 2, has_link |-> FALSE,
           headline |-> CHOOSE h \in Headlines : h.text = "fed data"]}
CalendarPageRows ==
    {[kind |-> "date", parses |-> p] : p \in BOOLEAN}
    \cup {[kind |-> "event", cells |-> 8, currency |-> "USD", icons |-> 3, time |-> 600,
           event |-> "ISM Services PMI"],
          [kind |-> "event", cells |-> 8, currency |-> "USD", icons |-> 2, time |-> 510,
           event |-> "Initial Jobless Claims"],
          [kind |-> "event", cells |-> 8, currency |-> "USD", icons |-> 1, time |-> 480,
           event |-> "Redbook"],
          [kind |-> "event", cells |-> 8, currency |-> "EUR", icons |-> 3, time |-> 300,
           event |-> "ECB Rate Decision"],
          [kind |-> "event", cells |-> 8, currency |-> "USD", icons |-> 3, time |-> 1440,
           event |-> "Fed Speech"]}
SectorPageRows ==
    {[cells |-> 2, sector |-> s, is_number |-> TRUE, perf |-> p] :
        s \in {"Technology", "Energy"}, p \in {-201, 100}}
    \cup {[cells |-> 2, sector |-> "Utilities", is_number |-> FALSE, perf |-> 0],
          [cells |-> 1, sector |-> "Utilities", is_number |-> TRUE, perf |-> 100]}
OverviewPageRows ==
    {[cells |-> c, index_name |-> n] : c \in {2, 3}, n \in {"DOW", "NASDAQ", "S&P 500"}}

NoTablePage(parser) ==
    [parser |-> parser, unparsable |-> FALSE, has_table |-> FALSE, rows |-> <<>>, vix |-> "none"]

ScrapedPages(m) ==
    {[parser |-> "news", unparsable |-> FALSE, has_table |-> TRUE, rows |-> r, vix |-> "none"] :
        r \in SeqsUpTo(NewsRows, m)}
    \cup {[parser |-> "calendar", unparsable |-> FALSE, has_table |-> TRUE, rows |-> r,
           vix |-> "none"] : r \in SeqsUpTo(CalendarPageRows, m)}
    \cup {[parser |-> "sectors", unparsable |-> FALSE, has_table |-> TRUE, rows |-> r,
           vix |-> "none"] : r \in SeqsUpTo(SectorPageRows, m)}
    \cup {[parser |-> "overview", unparsable |-> FALSE, has_table |-> t, rows |-> r, vix |-> v] :
              t \in BOOLEAN, r \in SeqsUpTo(OverviewPageRows, 2),
              v \in {"none", "cell", "no cell"}}
    \cup {NoTablePage(p) : p \in {"news", "calendar", "sectors"}}
    \cup {[NoTablePage(p) EXCEPT !.unparsable = TRUE] : p \in {"news", "calendar"}}

ScrapeInit ==
    /\ requests_made = 0
    /\ tasks = [t \in Tasks |-> IdleTask]
    /\ sent = 0
    /\ payload = NoPayload
    /\ order = <<>>
    /\ parsed = NotParsed
    /\ UniIdle
    /\ run \in {[pc |-> "page", page |-> p, max_articles |-> n, result |-> Value("none")] :
                  p \in ScrapedPages(MaxRows), n \in {2, 10}}

\* FinvizNewsCollector._parse_finviz_news returns
ParseFinvizNews ==
    /\ run.pc = "page"
    /\ run.page.parser = "news"
    /\ run' = [run EXCEPT !.pc = "parsed",
                          !.result = Value(parse_finviz_news(run.page, run.max_articles))]
    /\ UNCHANGED <<requests_made, avVars, parseVars, uniVars>>

\* ForexFactoryCollector._parse_economic_calendar returns
ParseEconomicCalendar ==
    /\ run.pc = "page"
    /\ run.page.parser = "calendar"
    /\ run' = [run EXCEPT !.pc = "parsed", !.result = Value(parse_economic_calendar(run.page))]
    /\ UNCHANGED <<requests_made, avVars, parseVars, uniVars>>

\* FinvizCollector._parse_sector_performance returns
ParseSectorPerformance ==
    /\ run.pc = "page"
    /\ run.page.parser = "sectors"
    /\ run' = [run EXCEPT !.pc = "parsed", !.result = Value(parse_sector_performance(run.page))]
    /\ UNCHANGED <<requests_made, avVars, parseVars, uniVars>>

\* FinvizCollector._parse_market_overview returns
ParseMarketOverview ==
    /\ run.pc = "page"
    /\ run.page.parser = "overview"
    /\ run' = [run EXCEPT !.pc = "parsed", !.result = Value(parse_market_overview(run.page))]
    /\ UNCHANGED <<requests_made, avVars, parseVars, uniVars>>

ScrapeNext ==
    \/ ParseFinvizNews
    \/ ParseEconomicCalendar
    \/ ParseSectorPerformance
    \/ ParseMarketOverview

ScrapeSpec == ScrapeInit /\ [][ScrapeNext]_vars

(***************************************************************************)
(* The quotes of the Source Collectors, one payload at a time: a previous  *)
(* close of get_previous_close_data, a trade and a previous close of       *)
(* get_overnight_futures, a GLOBAL_QUOTE body of get_market_data.          *)
(***************************************************************************)
\* the dicts _get_previous_close can return, and None
QuotePrevCloses ==
    {PrevClose(has_c, c, has_o, o, has_v, v) :
        has_c \in BOOLEAN, c \in {0, 9900, 10100}, has_o \in BOOLEAN, o \in {0, 10000, 10033},
        has_v \in BOOLEAN, v \in {0, 5000}}
    \cup {NoPrevClose}

QuoteTrades == {Trade(some, p) : some \in BOOLEAN, p \in {0, 9950, 10200}}

\* GLOBAL_QUOTE bodies, and those of an object that leaves fields out: without
\* '10. change percent', without '06. volume', without '09. change'
QuotePayloads ==
    QuoteBodies \cup {QuoteBody(TRUE, 10000, 100, 0, 5000, FALSE),
                      QuoteBody(TRUE, 10000, 100, 101, 0, FALSE),
                      QuoteBody(TRUE, 10000, 0, 101, 5000, FALSE),
                      QuoteBody(TRUE, 9900, -100, -100, 7000, FALSE)}

QuoteInit ==
    /\ requests_made = 0
    /\ tasks = [t \in Tasks |-> IdleTask]
    /\ sent = 0
    /\ payload = NoPayload
    /\ order = <<>>
    /\ parsed = NotParsed
    /\ UniIdle
    /\ run \in {[pc |-> "payload", source |-> "previous_close", prev_close |-> p,
                 trade |-> Trade(FALSE, 0), body |-> QuoteBody(FALSE, 0, 0, 0, 0, FALSE),
                 quotes |-> EmptyDict] : p \in QuotePrevCloses}
           \cup {[pc |-> "payload", source |-> "futures", prev_close |-> p,
                  trade |-> t, body |-> QuoteBody(FALSE, 0, 0, 0, 0, FALSE),
                  quotes |-> EmptyDict] : p \in QuotePrevCloses, t \in QuoteTrades}
           \cup {[pc |-> "payload", source |-> "alphavantage", prev_close |-> NoPrevClose,
                  trade |-> Trade(FALSE, 0), body |-> b,
                  quotes |-> EmptyDict] : b \in QuotePayloads}

\* one iteration of the loop of get_previous_close_data, for SPY
PreviousCloseQuote ==
    /\ run.pc = "payload"
    /\ run.source = "previous_close"
    /\ run' = [run EXCEPT
                 !.pc = "quoted",
                 !.quotes = CloseIteration(EmptyDict, priority_symbols[1], run.prev_close).val]
    /\ UNCHANGED <<requests_made, avVars, parseVars, uniVars>>

\* one iteration of the loop of get_overnight_futures, for ES
FuturesQuote ==
    /\ run.pc = "payload"
    /\ run.source = "futures"
    /\ run' = [run EXCEPT
                 !.pc = "quoted",
                 !.quotes = FuturesIteration(EmptyDict, futures_symbols[1], run.trade,
                                             run.prev_close)]
    /\ UNCHANGED <<requests_made, avVars, parseVars, uniVars>>

\* the 200 branch of one iteration of the loop of get_market_data, for SPY;
\* except Exception: continue
ProvidedQuote ==
    /\ run.pc = "payload"
    /\ run.source = "alphavantage"
    /\ run' = [run EXCEPT
                 !.pc = "quoted",
                 !.quotes = Caught(QuoteFromBody(EmptyDict, "SPY", run.body), EmptyDict).val]
    /\ UNCHANGED <<requests_made, avVars, parseVars, uniVars>>

QuoteNext == PreviousCloseQuote \/ FuturesQuote \/ ProvidedQuote

QuoteSpec == QuoteInit /\ [][QuoteNext]_vars

(***************************************************************************)
(* PolygonCollector._get_previous_close, one loop iteration per step: the  *)
(* days of range(1, 6) before today, a request for each that is no weekend *)
(* day.  today is datetime.now().weekday() (Monday is 0).                  *)
(***************************************************************************)
\* (datetime.now() - timedelta(days=days_back)).weekday()
WeekdayBefore(today, days_back) == (today + 7 - days_back) % 7

\* what the loop does with the response of a day: return the data, return
\* None, or go on to the day before
AfterResponseRetrying(kind) ==
    IF kind = "ok" THEN "return data" ELSE "next day"
AfterResponse(kind) ==
    CASE kind = "ok"  -> "return data"
      [] kind = "429" -> "return None"
      [] OTHER        -> "next day"

\* the responses to the request for one day: 200 with status OK, 200 with
\* another status in the body, 429, 404, another HTTP status, a transport exception
DayAnswers ==
    {DayResponse("ok", FullClose), DayResponse("ok", NoVolumeClose)}
    \cup {DayResponse(k, NoPrevClose) : k \in {"not_ok", "429", "404", "500", "exception"}}

PrevCloseInit ==
    /\ requests_made = 0
    /\ tasks = [t \in Tasks |-> IdleTask]
    /\ sent = 0
    /\ payload = NoPayload
    /\ order = <<>>
    /\ parsed = NotParsed
    /\ UniIdle
    /\ run \in {[pc |-> "loop", today |-> w, days_back |-> 1, days |-> <<>>,
                 responses |-> <<>>, result |-> NoPrevClose] : w \in 0..6}

\* if date.weekday() >= 5: continue
SkipWeekend ==
    /\ run.pc = "loop"
    /\ run.days_back <= 5
    /\ WeekdayBefore(run.today, run.days_back) >= 5
    /\ run' = [run EXCEPT !.days_back = @ + 1]
    /\ UNCHANGED <<requests_made, avVars, parseVars, uniVars>>

\* the request for the day and what the loop does with its response
RequestDay(resp) ==
    /\ run.pc = "loop"
    /\ run.days_back <= 5
    /\ WeekdayBefore(run.today, run.days_back) < 5
    /\ LET after == AfterResponse(resp.kind)
       IN run' = [run EXCEPT
                    !.days = Append(@, run.days_back),
                    !.responses = Append(@, resp),
                    !.pc = IF after = "next day" THEN "loop" ELSE "returned",
                    !.days_back = IF after = "next day" THEN @ + 1 ELSE @,
                    !.result = IF after = "return data" THEN resp.data ELSE NoPrevClose]
    /\ UNCHANGED <<requests_made, avVars, parseVars, uniVars>>

\* the loop is over: return None
NoDayLeft ==
    /\ run.pc = "loop"
    /\ run.days_back > 5
    /\ run' = [run EXCEPT !.pc = "returned", !.result = NoPrevClose]
    /\ UNCHANGED <<requests_made, avVars, parseVars, uniVars>>

PrevCloseNext ==
    \/ SkipWeekend
    \/ \E resp \in DayAnswers : RequestDay(resp)
    \/ NoDayLeft

PrevCloseSpec == PrevCloseInit /\ [][PrevCloseNext]_vars

\* every request is answered or raises (the HTTP client bounds its duration),
\* and the event loop resumes the coroutine
PrevCloseLiveSpec == PrevCloseSpec /\ WF_vars(PrevCloseNext)

(***************************************************************************)
(*                               CLAIMS                                    *)
(***************************************************************************)

\* a step in which some coroutine passes the budget guard and commits to a request
Admits == \E t \in Tasks : tasks[t].pc # "admitted" /\ tasks'[t].pc = "admitted"

\* C1: on one AlphaVantageCollector, under every interleaving of its fetch
\* operations at their awaits, requests_made never exceeds max_requests (25), no
\* more than max_requests requests are ever sent, and a request is only ever
\* admitted (guard passed, counter incremented, request sent next) from a state in
\* which requests_made < max_requests.
C1_BudgetNeverExceeded ==
    /\ [](requests_made <= max_requests /\ sent <= requests_made)
    /\ [][Admits => requests_made < max_requests]_vars
    /\ [][sent' # sent => \E t \in Tasks : tasks[t].pc = "admitted" /\ tasks'[t].pc = "await"]_vars

\* the budget is used up to the last request while another call was refused
C1_Witness ==
    /\ requests_made = max_requests
    /\ sent = max_requests
    /\ \E t \in Tasks : tasks[t].pc = "done" /\ tasks[t].exhausted_at_call

\* C2 (as claimed): a fetch operation called with the budget exhausted returns
\* with no network I/O, leaves requests_made unchanged, and returns a value that
\* differs from what a successful fetch that found no data returns.
C2_ExhaustedSignalExplicit ==
    \A t \in Tasks :
        (tasks[t].pc = "done" /\ tasks[t].exhausted_at_call) =>
            /\ tasks[t].io = 0
            /\ tasks[t].incs = 0
            /\ tasks[t].ret # SuccessfulNoData(tasks[t].op)

\* the payload holds an item whose processing raises
HasFailingItem(data) ==
    data.kind = "dict" /\ \E k \in 1..Len(data.items) : data.items[k].bad # "none"

\* C7: when processing any item of the payload fails, _parse_news_sentiment
\* returns exactly one ERROR marker NewsItem with themes ['ERROR'], and nothing
\* parsed before the failing item is in the result.
C7_FailedParseDiscardsAll ==
    (parsed # NotParsed /\ HasFailingItem(payload)) =>
        /\ parsed = ErrorNews("parse_error")
        /\ Len(parsed.items) = 1
        /\ \A k \in 1..Len(parsed.items) : parsed.items[k].source = "ERROR"
        /\ parsed.themes = <<"ERROR">>

\* an item was parsed, the one after it failed, and the parse has returned
C7_Witness ==
    /\ parsed # NotParsed
    /\ payload.kind = "dict"
    /\ Len(payload.items) = 2
    /\ payload.items[1].bad = "none"
    /\ payload.items[2].bad # "none"

\* the names of the collector calls made so far, in order
CallNames == [k \in 1..Len(calls) |-> calls[k].name]

\* the entries of a calendar that are not ERROR markers
UsableEntries(calendar) == SelectSeq(calendar, LAMBDA e : "ERROR" \notin DOMAIN e)

QuotesOf(d) == {d[n] : n \in DOMAIN d}

\* C4: in get_enhanced_market_data, when the Polygon previous close yields an empty
\* map and Alpha Vantage get_market_data a non-empty one, previous_close holds
\* exactly the quotes Alpha Vantage returned: each of them once, nothing else.
C4_SecondaryQuotesExactly ==
    (/\ uop = "market_data"
     /\ InSeq("alphavantage.get_market_data", CallNames)
     /\ loc.polygon_close = EmptyDict
     /\ loc.av_market_data # EmptyDict) =>
        LET previous_close == IF upc = "done" THEN result.previous_close
                              ELSE loc.market_data.previous_close
        IN /\ QuotesOf(previous_close) = QuotesOf(loc.av_market_data)
           /\ Cardinality(DOMAIN previous_close) = Cardinality(DOMAIN loc.av_market_data)
           /\ \A n \in DOMAIN previous_close : previous_close[n].provider = "alphavantage"

\* Polygon answered no symbol with usable data, Alpha Vantage two of its three
C4_Witness ==
    /\ uop = "market_data" /\ upc = "done"
    /\ ~calls[1].live
    /\ loc.polygon_close = EmptyDict
    /\ Cardinality(DOMAIN loc.av_market_data) = 2
    /\ Cardinality(DOMAIN result.previous_close) = 2

\* every collector call of the operation failed
AllFailed == \A k \in 1..Len(calls) : ~calls[k].live

\* the representation of "no data" of each capability
IsFailureRepresentation(o, value) ==
    CASE o = "market_data" -> value = EmptyMarketData
      [] o = "news"        -> /\ Len(value.items) = 1
                              /\ value.items[1].headline = "ERROR"
                              /\ value.items[1].source = "ERROR"
                              /\ value.themes = <<"ERROR">>
      [] o = "sector"      -> value = NoSectorRotation
      [] o = "earnings"    -> Len(value) = 1 /\ DOMAIN value[1] = {"ERROR"}
      [] o = "calendar"    -> UsableEntries(value) = <<>>

C6_CollectorsNeverRaise == \A k \in 1..Len(calls) : ~calls[k].raised

\* four collector calls met failing providers and each returned a value
C6_Witness ==
    /\ uop = "market_data" /\ upc = "done"
    /\ Len(calls) = 4 /\ AllFailed
    /\ \A k \in 1..4 : ~calls[k].raised
    /\ requests_made = 3

\* the fields of a ReportData instance
ReportFields == {"executive_summary", "market_performance", "news_events", "sector_analysis",
                 "technical_analysis", "economic_calendar", "risk_assessment",
                 "earnings_calendar"}

\* generate_premarket_report has been called and has not returned yet
RunInProgress == run.generator = "premarket" /\ run.pc \in UnifiedOps

\* generate_premarket_report has returned a ReportData instance
ReportReturned ==
    /\ run.generator = "premarket"
    /\ run.pc = "returned"
    /\ DOMAIN run.report = ReportFields

\* C8: every invocation of generate_premarket_report eventually returns a
\* ReportData instance and never raises, whatever the providers answer during
\* the run (failures, malformed payloads) and however much of the Alpha
\* Vantage budget is left.
C8_ReportAlwaysReturned ==
    /\ [](run.pc # "raised")
    /\ RunInProgress ~> ReportReturned

\* a run that began with the budget exhausted, in which every provider failed,
\* has returned its report
C8_Witness ==
    /\ ReportReturned
    /\ run.start = max_requests
    /\ run.report.market_performance.previous_close = EmptyDict
    /\ run.report.news_events = ErrorNews("rate_limit").items
    /\ run.report.sector_analysis.total_stories_analyzed = 1

\* C9: no hardcoded sample or fallback record (the sample news, the sample or
\* fallback calendar events) appears in a report that has been returned.
C9_NoSampleRecords ==
    run.pc = "returned" =>
        /\ \A k \in 1..Len(run.report.news_events) :
               run.report.news_events[k] \notin Range(sample_news)
        /\ \A k \in 1..Len(run.report.economic_calendar) :
               run.report.economic_calendar[k]
                   \notin Range(sample_events) \cup Range(get_fallback_economic_calendar)

\* the all-sources-failed representations as the input of the synthesis
AllFailedInput ==
    /\ run.market_data = EmptyMarketData
    /\ \/ run.news.items = <<>>
       \/ \A k \in 1..Len(run.news.items) : run.news.items[k].source = "ERROR"
    /\ run.sector_rotation = NoSectorRotation
    /\ Len(run.earnings_calendar) = 1
    /\ "ERROR" \in DOMAIN run.earnings_calendar[1]

\* C10: on the all-sources-failed representations the three synthesis functions
\* return without raising: overall sentiment 'neutral', average impact 0,
\* market_sentiment 'neutral', a non-empty key_insights list and non-empty
\* risk lists.
C10_SynthesisOfAllFailed ==
    (AllFailedInput /\ run.pc \in {"synthesized", "raised"}) =>
        /\ run.pc = "synthesized"
        /\ run.report.sector_analysis.overall_sentiment = "neutral"
        /\ run.report.sector_analysis.average_impact_score = 0
        /\ run.report.executive_summary.market_sentiment = "neutral"
        /\ run.report.executive_summary.key_insights # <<>>
        /\ run.report.risk_assessment.primary_risks # <<>>
        /\ run.report.risk_assessment.opportunity_areas # <<>>

\* the synthesis of an empty news list and of an ERROR-marker news list, the
\* other inputs all failed
C10_Witness ==
    /\ AllFailedInput
    /\ run.pc = "synthesized"
    /\ run.news.items = <<>>
C10_WitnessErrorNews ==
    /\ AllFailedInput
    /\ run.pc = "synthesized"
    /\ run.news.items # <<>>

\* the provider of task k failed: no request of the call got a 200 answer
BranchFailed(k) == \A j \in 1..Len(run.answers[k]) : run.answers[k][j] # "ok"

\* C11: the join of collect_comprehensive_data does not raise, and in the
\* returned map the key of a failing branch holds that branch's empty default
\* while every other key holds exactly the value its own branch returned,
\* whichever branches fail and in whatever order the branches complete.
C11_BranchesIsolated ==
    /\ run.pc \in {"gather", "returned"}
    /\ run.pc = "returned" =>
           \A k \in 1..Len(gather_tasks) :
               /\ ~run.results[k].exc
               /\ run.value[gather_tasks[k].key] = run.results[k].val
               /\ run.results[k].val = SourceCall(gather_tasks[k].call, run.answers[k]).val
               /\ BranchFailed(k) =>
                      run.value[gather_tasks[k].key] = SourceDefault(gather_tasks[k].call)

\* the map has been returned after the crypto branch failed by an exception and
\* the international branch by a status, the other branches holding data
C11_Witness ==
    /\ run.pc = "returned"
    /\ run.answers[3] = <<"exception">>
    /\ run.answers[2] = <<"status">>
    /\ run.value["crypto"] = EmptyDict
    /\ run.value["international"] = EmptyDict
    /\ run.value["futures"] = ParsedBody("tradingview.get_futures_data")
    /\ run.value["top_movers"].gainers # <<>>

\* the sectors named in a list of (sector, data) pairs
SectorsIn(pairs) == {pairs[k].sector : k \in 1..Len(pairs)}

\* the number of sectors get_sector_rotation_data resolved
Resolved == Cardinality(DOMAIN run.rotation.weekly_performance)

\* C12: when 5 or more sectors were resolved, leaders and laggards are
\* disjoint, each has at most 3 entries, both are drawn from the keys of
\* weekly_performance, and every leader's weekly return is at least every
\* laggard's.
C12_LeadersLaggardsDisjoint ==
    (run.pc = "rotation" /\ Resolved >= 5) =>
        LET leaders  == run.rotation.leaders
            laggards == run.rotation.laggards
        IN /\ SectorsIn(leaders) \cap SectorsIn(laggards) = {}
           /\ Len(leaders) <= 3
           /\ Len(laggards) <= 3
           /\ SectorsIn(leaders) \cup SectorsIn(laggards)
                  \subseteq DOMAIN run.rotation.weekly_performance
           /\ \A i \in 1..Len(leaders) : \A j \in 1..Len(laggards) :
                  leaders[i].data.weekly_return >= laggards[j].data.weekly_return

\* the weekly return of the k-th pair of a list of (sector, data) pairs
ReturnAt(pairs, k) == pairs[k].data.weekly_return

\* the weekly returns of the resolved sectors that are not in pairs
ReturnsOutside(pairs) ==
    {run.rotation.weekly_performance[s].weekly_return :
        s \in DOMAIN run.rotation.weekly_performance \ SectorsIn(pairs)}

\* C13: leaders are the 3 sectors with the highest weekly return in descending
\* order of return; laggards are the 3 sectors with the lowest weekly return
\* (the 2 lowest when fewer than 5 sectors were resolved) in ascending order
\* of return.
C13_LeadersDescendingLaggardsAscending ==
    (run.pc = "rotation" /\ Resolved >= 3) =>
        LET leaders  == run.rotation.leaders
            laggards == run.rotation.laggards
        IN /\ Len(leaders) = 3
           /\ \A i \in 1..Len(leaders) : \A j \in i..Len(leaders) :
                  ReturnAt(leaders, i) >= ReturnAt(leaders, j)
           /\ \A i \in 1..Len(leaders) : \A r \in ReturnsOutside(leaders) :
                  ReturnAt(leaders, i) >= r
           /\ Len(laggards) = IF Resolved < 5 THEN 2 ELSE 3
           /\ \A i \in 1..Len(laggards) : \A j \in i..Len(laggards) :
                  ReturnAt(laggards, i) <= ReturnAt(laggards, j)
           /\ \A i \in 1..Len(laggards) : \A r \in ReturnsOutside(laggards) :
                  ReturnAt(laggards, i) <= r

\* max minus min of the weekly returns of sector data (0 without sectors)
SpreadOf(sector_data) ==
    LET returns == {sector_data[s].weekly_return : s \in DOMAIN sector_data}
    IN IF returns = {} THEN 0 ELSE MaxOf(returns) - MinOf(returns)

\* the buckets in the order weak < moderate < strong
BucketRank(strength) ==
    CASE strength = "weak" -> 1 [] strength = "moderate" -> 2 [] strength = "strong" -> 3

\* the sector data of the bars in run, and of the bars of at most two sectors
ClassifiedData == get_sector_etf_data(run.history).val
ComparedData(m) == {get_sector_etf_data(h).val : h \in SectorHistories(m)}

\* C14: _calculate_rotation_strength returns 'strong' iff the spread of the
\* weekly returns is above 5.0, 'moderate' iff it is above 2.5 and at most 5.0,
\* and 'weak' otherwise; a larger spread never gives a lower bucket.
C14_RotationStrengthBuckets ==
    run.pc = "strength" =>
        LET strength == run.rotation.rotation_strength
            spread   == SpreadOf(ClassifiedData)
        IN /\ strength \in {"weak", "moderate", "strong"}
           /\ strength = "strong" <=> spread > 500
           /\ strength = "moderate" <=> (spread > 250 /\ spread <= 500)
           /\ \A other \in ComparedData(2) :
                  SpreadOf(other) <= spread =>
                      BucketRank(calculate_rotation_strength(other)) <= BucketRank(strength)

\* a spread of exactly 5.0 classified
C14_Witness ==
    /\ run.pc = "strength"
    /\ SpreadOf(ClassifiedData) = 500
    /\ run.rotation.rotation_strength = "moderate"

\* the number of items of the aggregated list with sentiment s
CountOf(s) == Cardinality({k \in 1..Len(run.news_items) : run.news_items[k].sentiment = s})

\* the class with the strictly largest count, neutral when the largest is tied
MajorityClass ==
    IF CountOf("positive") > CountOf("negative") /\ CountOf("positive") > CountOf("neutral")
    THEN "positive"
    ELSE IF CountOf("negative") > CountOf("positive") /\ CountOf("negative") > CountOf("neutral")
    THEN "negative"
    ELSE "neutral"

\* C15: overall_sentiment is the class among positive, negative and neutral
\* with the strictly largest count, and 'neutral' when the largest count is
\* tied.
C15_OverallSentimentIsMajority ==
    run.pc \in {"enhanced", "impact"} => run.analysis.overall_sentiment = MajorityClass

\* C16: average_impact_score lies in [0,10], equals the arithmetic mean of
\* the items' impact scores up to the rounding of the output (one decimal in
\* _enhanced_sentiment_analysis, two in analyze_sentiment_impact), and is 0
\* for the empty list.
C16_AverageImpactIsMean ==
    LET n     == Len(run.news_items)
        total == TotalImpact(run.news_items, 1)
        avg   == run.analysis.average_impact_score
    IN /\ run.pc # "raised"
       /\ run.pc = "enhanced" =>
              /\ avg >= 0 /\ avg <= 100
              /\ n = 0 => avg = 0
              /\ 2 * (avg * n - total) <= n /\ 2 * (total - avg * n) <= n
       /\ run.pc = "impact" =>
              /\ avg >= 0 /\ avg <= 1000
              /\ n = 0 => avg = 0
              /\ 2 * (avg * n - 10 * total) <= n /\ 2 * (10 * total - avg * n) <= n

\* three items of impact 10.0, 10.0 and 7.5 aggregated: a mean of 9.1666..,
\* returned as 9.2; and the empty list aggregated
C16_Witness ==
    /\ run.pc = "enhanced"
    /\ Len(run.news_items) = 3
    /\ TotalImpact(run.news_items, 1) = 275
    /\ run.analysis.average_impact_score = 92
C16_WitnessEmpty ==
    /\ run.pc = "impact"
    /\ run.news_items = <<>>
    /\ run.analysis.average_impact_score = 0

\* C17: every NewsItem a parse of a news payload returns, the ERROR marker
\* item of a failed parse included, has an impact_score in [1,10].
C17_ImpactScoreInRange ==
    parsed # NotParsed =>
        \A k \in 1..Len(parsed.items) :
            parsed.items[k].impact_score >= 10 /\ parsed.items[k].impact_score <= 100

\* C18: in the result of the sentiment aggregation positive_stories +
\* negative_stories + neutral_stories equals total_stories_analyzed, the
\* number of items of the list.
C18_SentimentCountsSumToTotal ==
    run.pc = "enhanced" =>
        /\ run.analysis.positive_stories + run.analysis.negative_stories
               + run.analysis.neutral_stories = run.analysis.total_stories_analyzed
        /\ run.analysis.total_stories_analyzed = Len(run.news_items)

\* a list of five items holding all three classes aggregated
C18_Witness ==
    /\ run.pc = "enhanced"
    /\ Len(run.news_items) = 5
    /\ run.analysis.positive_stories = 3
    /\ run.analysis.negative_stories = 1
    /\ run.analysis.neutral_stories = 1

\* the distinct normalized topics of the items of the payload
ProviderThemes ==
    UNION {{normalize_theme_name(payload.items[k].topics[j]) :
                j \in 1..Len(payload.items[k].topics)} : k \in 1..Len(payload.items)}

\* the parse of the payload succeeded
ParseSucceeded == parsed # NotParsed /\ parsed.themes # <<"ERROR">>

\* C19: on every successful parse of a news payload the themes list has
\* exactly 5 entries, pairwise distinct, whether the provider gave no topic,
\* fewer than 5 or more, and when a normalized topic is one of the default
\* themes.
C19_FiveDistinctThemes ==
    ParseSucceeded =>
        /\ Len(parsed.themes) = 5
        /\ \A i \in 1..Len(parsed.themes) : \A j \in 1..Len(parsed.themes) :
               i # j => parsed.themes[i] # parsed.themes[j]

\* successful parses: a topic that normalizes to a default theme among fewer
\* than 5; six distinct topics; no topic at all
C19_Witness ==
    /\ ParseSucceeded
    /\ "Market Sentiment Analysis" \in ProviderThemes
    /\ Cardinality(ProviderThemes) = 2
C19_WitnessSixTopics ==
    /\ ParseSucceeded
    /\ Cardinality(ProviderThemes) = 6
C19_WitnessNoTopic ==
    /\ ParseSucceeded
    /\ ProviderThemes = {}
    /\ parsed.themes = default_themes

\* the futures and the sector returns the executive summary was made from
SummaryFutures == run.market_data.overnight_futures
SummaryBalance == sector_balance(SectorPerformanceOf(run.sector_rotation))

\* the sum of the futures' percent changes against +-0.3 times their number
MeanFuturesAbove == SummaryFutures # EmptyDict /\
    SumChanges(SummaryFutures, DOMAIN SummaryFutures) > 30 * Cardinality(DOMAIN SummaryFutures)
MeanFuturesBelow == SummaryFutures # EmptyDict /\
    SumChanges(SummaryFutures, DOMAIN SummaryFutures) < (-30) * Cardinality(DOMAIN SummaryFutures)

\* C20: the executive summary's market_sentiment is 'bullish' iff the mean
\* futures change is above +0.3 and the sector balance is above 0, 'bearish'
\* iff the mean is below -0.3 and the balance below 0, and 'neutral'
\* otherwise, also without futures quotes.
C20_MarketSentimentRule ==
    run.pc \in {"synthesized", "enhanced_summary"} =>
        LET market_sentiment == run.report.executive_summary.market_sentiment
        IN /\ market_sentiment \in {"bullish", "bearish", "neutral"}
           /\ market_sentiment = "bullish" <=> (MeanFuturesAbove /\ SummaryBalance > 0)
           /\ market_sentiment = "bearish" <=> (MeanFuturesBelow /\ SummaryBalance < 0)

\* the risk signals of _generate_premarket_risk_assessment on the inputs of run
HeavyEarnings == Len(SelectSeq(run.earnings_calendar, IsLargeCap)) >= 3
WeakRotation == run.sector_rotation.rotation_strength = "weak"
NegativeNewsBias == Stories(run.news.items, "negative") > Stories(run.news.items, "positive")
NoRiskSignal == ~HeavyEarnings /\ ~WeakRotation /\ ~NegativeNewsBias

\* C21: primary_risks of the risk assessment is never empty, and when no risk
\* signal fires it is exactly 'Standard market volatility' and 'Geopolitical
\* uncertainties'.
C21_PrimaryRisksNeverEmpty ==
    run.pc # "raised" /\
    (run.pc = "synthesized" =>
        /\ run.report.risk_assessment.primary_risks # <<>>
        /\ NoRiskSignal =>
               run.report.risk_assessment.primary_risks
                   = <<"Standard market volatility", "Geopolitical uncertainties">>
        /\ ~NoRiskSignal =>
               "Standard market volatility"
                   \notin Range(run.report.risk_assessment.primary_risks))

\* an assessment without a risk signal, and one in which two signals fired
C21_Witness ==
    /\ run.pc = "synthesized"
    /\ NoRiskSignal
    /\ Len(run.report.risk_assessment.primary_risks) = 2
C21_WitnessSignals ==
    /\ run.pc = "synthesized"
    /\ HeavyEarnings
    /\ NegativeNewsBias
    /\ Len(run.report.risk_assessment.primary_risks) = 2

\* the sector names a sector-weakness flag can carry, and the flags themselves
SectorNames == finviz_sectors \cup {sector_etfs[k].name : k \in 1..Len(sector_etfs)}
SectorWeaknessFlags ==
    {SectorWeaknessFlag(<<a>>) : a \in SectorNames}
    \cup {SectorWeaknessFlag(<<a, b>>) : a \in SectorNames, b \in SectorNames}
FlagsNaming(weak) ==
    {SectorWeaknessFlag(<<a>>) : a \in weak}
    \cup {SectorWeaknessFlag(<<a, b>>) : a \in weak, b \in SectorNames}
    \cup {SectorWeaknessFlag(<<b, a>>) : a \in weak, b \in SectorNames}

\* primary_risks carries a flag naming a sector of weak when weak is not empty,
\* and no sector-weakness flag when it is
FlagsWeakSectors(primary_risks, weak) ==
    IF weak # {}
    THEN Range(primary_risks) \cap FlagsNaming(weak) # {}
    ELSE Range(primary_risks) \cap SectorWeaknessFlags = {}

\* the sectors below -2.0% in the sector rotation given to the premarket risk
\* assessment, and in the sector performance given to the enhanced one
WeakInRotation ==
    {s \in DOMAIN run.sector_rotation.weekly_performance :
        run.sector_rotation.weekly_performance[s].weekly_return < -200}
WeakInPerformance ==
    {run.enhanced_data.sector_performance[k].sector :
        k \in {i \in 1..Len(run.enhanced_data.sector_performance) :
                  run.enhanced_data.sector_performance[i].perf < -200}}

\* C22: whenever a sector of the sector data given to the risk assessment has
\* a weekly return below -2.0%, primary_risks contains a sector-weakness flag
\* naming such a sector, and it contains none when no sector is below -2.0%
\* (here for _generate_premarket_risk_assessment, the assessment that
\* generate_premarket_report publishes).
C22_SectorWeaknessFlagged ==
    run.pc = "synthesized" =>
        FlagsWeakSectors(run.report.risk_assessment.primary_risks, WeakInRotation)

\* the same statement for _generate_enhanced_risk_assessment
C22_EnhancedSectorWeaknessFlagged ==
    run.pc \in {"assessed", "compiled"} =>
        FlagsWeakSectors(run.heap[run.risk_assessment.primary_risks], WeakInPerformance)
C22_EnhancedWitness ==
    /\ run.pc = "assessed"
    /\ Cardinality(WeakInPerformance) = 3
    /\ Len(run.heap[run.risk_assessment.primary_risks]) = 5

\* the aggregate as NewsAnalyzer.analyze_sentiment_impact produced it
ProducedSentiment == analyze_sentiment_impact(run.news_items)

\* C23: synthesis operations do not mutate aggregates already produced:
\* _enhanced_sentiment_analysis leaves the key_themes list of the sentiment
\* aggregate as it was produced when deriving enhanced_themes, and
\* _generate_enhanced_risk_assessment leaves the risk_factors list of its
\* sentiment_analysis argument (published as the report's sector_analysis) as
\* it was produced.
C23_AggregatesNotMutated ==
    /\ run.pc \in {"sentiment", "assessed", "compiled"} =>
           run.heap[run.sentiment_analysis.key_themes] = ProducedSentiment.key_themes
    /\ run.pc \in {"assessed", "compiled"} =>
           run.heap[run.sentiment_analysis.risk_factors] = ProducedSentiment.risk_factors
    /\ run.pc = "compiled" =>
           run.heap[run.report.sector_analysis.risk_factors] = ProducedSentiment.risk_factors

\* the two halves of C23, each on its own
C23_KeyThemesKept ==
    run.pc = "sentiment" =>
        run.heap[run.sentiment_analysis.key_themes] = ProducedSentiment.key_themes
C23_RiskFactorsKept ==
    [][run.pc = "sentiment" =>
          Deref(run'.heap, run'.sentiment_analysis, {"key_themes", "risk_factors"})
              = Deref(run.heap, run.sentiment_analysis, {"key_themes", "risk_factors"})]_vars

\* the result of a scraping parser is empty: no item, no event, no sector, and
\* for the market overview no index (the VIX entry is another sub-section)
EmptyScrape ==
    IF run.page.parser \in {"news", "calendar"} THEN run.result.val = <<>>
    ELSE DOMAIN run.result.val \subseteq {"VIX"}

\* C24: when the expected table element is missing from the page, each
\* scraping parser (_parse_finviz_news, _parse_economic_calendar,
\* _parse_sector_performance, _parse_market_overview) returns an empty result
\* for that sub-section and does not raise.
C24_MissingTableGivesEmpty ==
    (run.pc = "parsed" /\ ~run.page.has_table /\ ~run.page.unparsable) =>
        (~run.result.exc /\ EmptyScrape)

\* the part of C24 that holds: no parser raises, and the two dict parsers
\* return an empty dict without the table
C24_MissingTableNeverRaises ==
    (run.pc = "parsed" /\ ~run.page.has_table) =>
        /\ ~run.result.exc
        /\ run.page.parser \in {"sectors", "overview"} => EmptyScrape
C24_WitnessSectors ==
    run.pc = "parsed" /\ ~run.page.has_table /\ run.page.parser = "sectors"
        /\ run.result.val = EmptyDict

\* a news list ordered by impact_score, highest first
DescendingByImpact(items) ==
    \A i \in 1..Len(items) : \A j \in 1..Len(items) :
        i < j => items[i].impact_score >= items[j].impact_score

\* C25: the news list a news-capable collector returns (and that becomes
\* ReportData.news_events) is ordered by impact_score, highest first, for
\* every order of the provider payload (here for
\* AlphaVantageCollector._parse_news_sentiment).
C25_NewsOrderedByImpact ==
    parsed # NotParsed => DescendingByImpact(parsed.items)

\* the same statement for FinvizNewsCollector._parse_finviz_news
C25_FinvizNewsOrderedByImpact ==
    (run.pc = "parsed" /\ run.page.parser = "news") => DescendingByImpact(run.result.val)
C25_FinvizWitness ==
    /\ run.pc = "parsed"
    /\ run.page.parser = "news"
    /\ Len(run.page.rows) = 3
    /\ evaluate_impact_score(run.page.rows[1].headline) = 60
    /\ evaluate_impact_score(run.page.rows[2].headline) = 75
    /\ Len(run.result.val) = 3
    /\ run.result.val[1].impact_score = 100

\* change_percent of quote q is change / (current_price - change) * 100, in
\* hundredths of a percent and within one hundredth
ChangePercentConsistent(q) ==
    /\ q.current_price - q.change # 0
    /\ LET exact == PercentOf(q.change, q.current_price - q.change)
       IN q.change_percent - exact \in {-1, 0, 1}

QuotedBy(source) == IF run.pc = "quoted" /\ run.source = source THEN run.quotes ELSE EmptyDict

\* C26: every Quote a Source Collector produces has change_percent = change /
\* (current_price - change) * 100 within rounding tolerance: previous-close
\* quotes, futures quotes and provider-supplied quotes alike.
C26_ChangePercentConsistent ==
    run.pc = "quoted" => \A s \in DOMAIN run.quotes : ChangePercentConsistent(run.quotes[s])

\* the part of C26 about the quotes PolygonCollector computes
C26_ComputedQuotesConsistent ==
    \A source \in {"previous_close", "futures"} :
        \A s \in DOMAIN QuotedBy(source) : ChangePercentConsistent(QuotedBy(source)[s])
C26_WitnessPreviousClose ==
    /\ DOMAIN QuotedBy("previous_close") # {}
    /\ run.prev_close.c = 9900
    /\ run.prev_close.o = 10033
C26_WitnessFutures ==
    /\ DOMAIN QuotedBy("futures") # {}
    /\ run.trade.p = 9950
    /\ run.prev_close.c = 10100

\* the previous close of run is valid but for its volume, which is missing
ValidButVolume ==
    /\ run.prev_close.some
    /\ run.prev_close.has_c
    /\ run.prev_close.has_o
    /\ run.prev_close.o # 0
    /\ ~run.prev_close.has_v

\* C27: when a quote payload is otherwise valid but carries no volume value,
\* the collector still produces the Quote of the symbol, with volume 0.
C27_MissingVolumeGivesZero ==
    /\ (run.pc = "quoted" /\ run.source = "previous_close" /\ ValidButVolume) =>
           /\ "S&P 500" \in DOMAIN run.quotes
           /\ run.quotes["S&P 500"].volume = 0
    /\ (run.pc = "quoted" /\ run.source = "alphavantage"
            /\ run.body = QuoteBody(TRUE, 10000, 100, 101, 0, FALSE)) =>
           /\ "SPY" \in DOMAIN run.quotes
           /\ run.quotes["SPY"].volume = 0

\* the part of C27 about get_market_data, and its case
C27_ProvidedQuoteVolumeZero ==
    (run.pc = "quoted" /\ run.source = "alphavantage"
         /\ run.body = QuoteBody(TRUE, 10000, 100, 101, 0, FALSE)) =>
        /\ "SPY" \in DOMAIN run.quotes
        /\ run.quotes["SPY"].volume = 0
C27_WitnessProvided ==
    /\ run.pc = "quoted"
    /\ run.source = "alphavantage"
    /\ run.body = QuoteBody(TRUE, 10000, 100, 101, 0, FALSE)
    /\ run.quotes["SPY"].current_price = 10000

\* a step in which a coroutine hands its request to the session, and one in
\* which the response to a request is handled
Sends == \E t \in Tasks : tasks[t].pc = "admitted" /\ tasks'[t].pc = "await"
Handles == \E t \in Tasks : tasks[t].pc = "await" /\ tasks'[t].pc # "await"

\* C28: on an AlphaVantageCollector instance requests_made never decreases; it
\* grows by exactly one with each attempted request and before the request is
\* sent, whatever the attempt ends in (200, another status, a transport
\* exception, a parse failure); and once it has reached max_requests the
\* instance stays exhausted.
C28_BudgetCountsEveryAttempt ==
    /\ [][requests_made' >= requests_made]_vars
    /\ [][Admits <=> requests_made' = requests_made + 1]_vars
    /\ [][requests_made' # requests_made => Admits]_vars
    /\ [][Sends => (sent' = sent + 1 /\ sent' <= requests_made
                    /\ requests_made' = requests_made)]_vars
    /\ [][Handles => requests_made' = requests_made]_vars
    /\ [][BudgetExhausted(requests_made) => BudgetExhausted(requests_made')]_vars

\* the last request of the budget was an attempt that failed, and a later call
\* finds the instance exhausted
C28_Witness ==
    /\ requests_made = max_requests
    /\ \E t \in Tasks : /\ tasks[t].pc = "done"
                         /\ ~tasks[t].exhausted_at_call
                         /\ tasks[t].incs = 1
                         /\ tasks[t].ret = "exception"
    /\ \E t \in Tasks : tasks[t].pc = "done" /\ tasks[t].exhausted_at_call

\* a generate_premarket_report run on a fresh generator: the Alpha Vantage
\* counter was 0 when it began
FreshRun == run.generator = "premarket" /\ run.start = 0 /\ run.pc # "idle"

\* the Alpha Vantage requests a fresh run may have issued by its position
RequestsByPhase ==
    CASE run.pc \in {"market_data", "sector"} -> 3
      [] run.pc = "earnings" -> IF upc = "done" THEN 4 ELSE 3
      [] run.pc = "news"     -> IF upc = "done" THEN 5 ELSE 4
      [] OTHER               -> 5

\* C29: one generate_premarket_report run on a fresh generator issues at most
\* 5 Alpha Vantage requests: the quotes first (at most 3, for the first three
\* symbols), then the earnings calendar (1), then the news (1); requests_made
\* is at most 5 when the run ends and the news request is the last one.
C29_FreshRunIssuesAtMostFive ==
    /\ [](FreshRun => requests_made <= RequestsByPhase)
    /\ [][(FreshRun /\ requests_made' # requests_made) =>
              /\ requests_made' = requests_made + 1
              /\ \/ /\ run.pc = "market_data"
                    /\ upc = "alphavantage.get_market_data"
                    /\ idx \in 1..3
                    /\ QuoteSymbols[idx] = major_symbols[idx]
                 \/ run.pc = "earnings" /\ upc = "alphavantage.get_earnings_calendar"
                 \/ /\ run.pc = "news"
                    /\ upc = "alphavantage.get_market_news_with_sentiment"
                    /\ upc' = "done"]_vars
    /\ [][(FreshRun /\ run.pc = "news" /\ upc = "done") =>
              (FreshRun' => requests_made' = requests_made)]_vars

\* a fresh run has returned after its five requests
C29_Witness ==
    /\ FreshRun
    /\ run.pc = "returned"
    /\ requests_made = 5
    /\ run.report.news_events # ErrorNews("rate_limit").items

\* the candidate days of a call: the days before today, 1 to 5 back, that are
\* no weekend days
CandidateDays == {d \in 1..5 : WeekdayBefore(run.today, d) < 5}

\* C30: _get_previous_close terminates after at most 5 requests, one per
\* candidate day, most recent first; it returns the data of the first day
\* answered with 200 and status 'OK', None at once on a 429, goes on to the
\* day before after any other failure, and returns None when no candidate day
\* succeeds.
C30_PreviousCloseTerminates ==
    /\ <>(run.pc = "returned")
    /\ [](/\ Len(run.responses) <= 5
          /\ Len(run.days) = Len(run.responses)
          /\ \A k \in 1..Len(run.days) : run.days[k] \in CandidateDays
          /\ \A j, k \in 1..Len(run.days) : j < k => run.days[j] < run.days[k]
          /\ \A k \in 1..(Len(run.responses) - 1) :
                 run.responses[k].kind \in {"not_ok", "404", "500", "exception"})
    /\ [](run.pc = "returned" =>
            LET n == Len(run.responses)
                last == IF n = 0 THEN "none" ELSE run.responses[n].kind
            IN /\ last = "ok" => run.result = run.responses[n].data
               /\ last = "429" => ~run.result.some
               /\ last \notin {"ok", "429"} =>
                      (~run.result.some /\ Range(run.days) = CandidateDays)
               /\ run.result = get_previous_close(run.responses, 1))

\* a call on a Monday: Sunday and Saturday skipped, Friday's 404, Thursday's
\* data; a call that a 429 ended after one failure; a call no day answered
C30_Witness ==
    /\ run.pc = "returned"
    /\ run.today = 0
    /\ run.days = <<3, 4>>
    /\ run.responses[1].kind = "404"
    /\ run.result = FullClose
C30_WitnessRateLimited ==
    /\ run.pc = "returned"
    /\ Len(run.responses) = 2
    /\ run.responses[2].kind = "429"
    /\ Cardinality(CandidateDays) > 2
C30_WitnessFiveRequests ==
    /\ run.pc = "returned"
    /\ Len(run.responses) = 5
    /\ ~run.result.some

=============================================================================
